---- MODULE Spec2Model ----
(***************************************************************************)
(* Model of the LLM-response-to-structured-data pipeline of devbm7/dev2:   *)
(* the completion clients (call_ollama_api, call_llama3), the JSON         *)
(* extraction and sanitizing of the evaluation module, the persistence of  *)
(* evaluation reports, and the template fillers of the job transformers.   *)
(*                                                                         *)
(* Text is modelled as a sequence of one-character strings; indices in the *)
(* string helpers are Python's (0-based) so that the definitions read like *)
(* the source.                                                             *)
(***************************************************************************)
EXTENDS Integers, Sequences, FiniteSets, TLC

VARIABLES
    http,           \* the endpoint's behaviour for the pending completion call
    cpc,            \* position of the completion client: "idle", "ollama", "llama3"
    requests_made,  \* outbound POST requests issued so far
    raw_response,   \* call_ollama_api: the "response" text of the reply
    json_content,   \* call_ollama_api: the text isolated by the extraction
    api_result,     \* call_ollama_api: what it returned
    llama_result,   \* call_llama3: what it returned, or that it raised
    env,            \* evaluation module: which store credentials the environment holds
    client_ok,      \* evaluation module: whether _initialize_supabase produced a client
    db,             \* interview_sessions and job_templates: what each session id resolves to
    reports,        \* interview_sessions.Interview_report, per session id
    mode,           \* which entry point of the evaluation module is exercised
    batch,          \* batch_evaluate_sessions: its session_ids argument
    bidx,           \* batch_evaluate_sessions: sessions handled so far
    successful,     \* results["successful_evaluations"] (session ids)
    failed,         \* results["failed_evaluations"]
    last_eval,      \* the latest evaluate_interview_session call: result and calls made
    last_save,      \* the latest save_evaluation_report call: store replies and result
    last_http,      \* the completion endpoint's behaviour during the latest evaluation
    results,        \* batch_evaluate_sessions: how the call ended, and the rates it returned
    given,          \* fill: the template as it was when the fill was called
    template,       \* fill: the template the caller holds
    filled,         \* fill: the tree the fill returned
    fill_result,    \* fill: "returned" or "raised" once the call is over
    version,        \* fill: which parser's fill operation ran
    shares,         \* fill: whether the result shares values with the caller's template
    raw_values,     \* v1.2: what extract_field_specific_info returned, per field_mappings entry
    extracted_data, \* v1.0: the map given to fill_json_template
    field_calls,    \* v1.2: the field_mappings entries a completion was asked for, in order
    job_run,        \* v1.0: how a process_job_description call went and what it persisted
    fn_name,        \* which of the input-to-output functions was called, "none" before
    fn_arg,         \* the argument it was called with
    fn_ret          \* what it returned

clientVars == <<http, cpc, requests_made, raw_response, json_content, api_result, llama_result>>

evalVars ==
    <<env, client_ok, db, reports, mode, batch, bidx, successful, failed, last_eval, last_save,
      last_http, results>>

fillVars ==
    <<given, template, filled, fill_result, version, shares, raw_values, extracted_data,
      field_calls, job_run>>

pureVars == <<fn_name, fn_arg, fn_ret>>

vars == <<clientVars, evalVars, fillVars, pureVars>>

-----------------------------------------------------------------------------
(* Bounds of the model *)

\* longest completion reply, counted in chunks of ReplyChunks
MaxChunks == 4

\* longest session_ids list given to batch_evaluate_sessions
MaxBatch == 2

\* most items in a raw value that lists items
MaxItems == 2

\* longest list of exchanges, of questions and of answers in a session_information
MaxExchanges == 2

-----------------------------------------------------------------------------
(* Python string helpers *)

MinOf(S) == CHOOSE x \in S : \A y \in S : x <= y

Whitespace == {" ", "\n", "\r", "\t"}

\* s[a:b] for a >= 0; a negative b counts from the end
Slice(s, a, b) ==
    LET n  == Len(s)
        bb == IF b < 0 THEN (IF n + b < 0 THEN 0 ELSE n + b) ELSE (IF b > n THEN n ELSE b)
    IN  IF a >= bb THEN <<>> ELSE SubSeq(s, a + 1, bb)

\* s[i:].startswith(sub)
StartsWithAt(s, sub, i) ==
    /\ i + Len(sub) <= Len(s)
    /\ SubSeq(s, i + 1, i + Len(sub)) = sub

\* s.find(sub, from): lowest index of an occurrence at or after from, else -1
Find(s, sub, from) ==
    LET hits == {i \in from..(Len(s) - Len(sub)) : StartsWithAt(s, sub, i)}
    IN  IF hits = {} THEN -1 ELSE MinOf(hits)

\* sub in s
Contains(s, sub) == Find(s, sub, 0) # -1

\* s.strip()
Strip(s) ==
    LET keep == {i \in 1..Len(s) : s[i] \notin Whitespace}
    IN  IF keep = {} THEN <<>>
        ELSE SubSeq(s, MinOf(keep), CHOOSE x \in keep : \A y \in keep : y <= x)

\* s.replace(old, new): non-overlapping occurrences, left to right
RECURSIVE ReplaceFrom(_, _, _, _)
ReplaceFrom(s, old, new, i) ==
    IF i >= Len(s) THEN <<>>
    ELSE IF StartsWithAt(s, old, i)
         THEN new \o ReplaceFrom(s, old, new, i + Len(old))
         ELSE <<s[i + 1]>> \o ReplaceFrom(s, old, new, i + 1)

Replace_FirstOnly(s, old, new) ==
    IF Find(s, old, 0) < 0 THEN s
    ELSE Slice(s, 0, Find(s, old, 0)) \o new \o Slice(s, Find(s, old, 0) + Len(old), Len(s))

Replace(s, old, new) == ReplaceFrom(s, old, new, 0)

RECURSIVE Flatten(_)
Flatten(ss) == IF ss = <<>> THEN <<>> ELSE Head(ss) \o Flatten(Tail(ss))

-----------------------------------------------------------------------------
(* json.loads, as far as the replies of the model exercise it *)

Digits == {"0", "1", "2", "3", "4", "5", "6", "7", "8", "9"}

JsonWs == {" ", "\n", "\r", "\t"}

JsonFail == [ok |-> FALSE, next |-> 0, kind |-> "error", truthy |-> FALSE]

JsonOk(n, k, t) == [ok |-> TRUE, next |-> n, kind |-> k, truthy |-> t]

RECURSIVE SkipWs(_, _)
SkipWs(s, i) == IF i < Len(s) /\ s[i + 1] \in JsonWs THEN SkipWs(s, i + 1) ELSE i

\* index just after the closing quote of the string literal whose opening
\* quote is at i - 1, or -1: a control character inside a string is invalid
RECURSIVE StringEnd(_, _)
StringEnd(s, i) ==
    IF i >= Len(s) THEN -1
    ELSE IF s[i + 1] = "\"" THEN i + 1
    ELSE IF s[i + 1] \in {"\n", "\r", "\t"} THEN -1
    ELSE IF s[i + 1] = "\\" THEN (IF i + 1 < Len(s) THEN StringEnd(s, i + 2) ELSE -1)
    ELSE StringEnd(s, i + 1)

RECURSIVE DigitsEnd(_, _)
DigitsEnd(s, i) == IF i < Len(s) /\ s[i + 1] \in Digits THEN DigitsEnd(s, i + 1) ELSE i

\* a JSON number starting at i
ParseNumber(s, i) ==
    LET j == IF StartsWithAt(s, <<"-">>, i) THEN i + 1 ELSE i
        k == IF StartsWithAt(s, <<"0">>, j) THEN j + 1 ELSE DigitsEnd(s, j)
        m == IF StartsWithAt(s, <<".">>, k) /\ DigitsEnd(s, k + 1) > k + 1
             THEN DigitsEnd(s, k + 1) ELSE k
    IN  IF k = j THEN JsonFail
        ELSE JsonOk(m, "number", \E p \in (j + 1)..m : s[p] \in Digits \ {"0"})

RECURSIVE ParseValue(_, _)
RECURSIVE ParseMembers(_, _)
RECURSIVE ParseElements(_, _)

\* the members of an object from i (just before a key), up to its closing brace
ParseMembers(s, i) ==
    IF ~StartsWithAt(s, <<"\"">>, i) THEN JsonFail
    ELSE LET ke == StringEnd(s, i + 1)
             c  == SkipWs(s, ke)
         IN  IF ke = -1 \/ ~StartsWithAt(s, <<":">>, c) THEN JsonFail
             ELSE LET v == ParseValue(s, SkipWs(s, c + 1))
                      e == SkipWs(s, v.next)
                  IN  IF ~v.ok THEN JsonFail
                      ELSE IF StartsWithAt(s, <<"}">>, e) THEN JsonOk(e + 1, "object", TRUE)
                      ELSE IF StartsWithAt(s, <<",">>, e)
                           THEN ParseMembers(s, SkipWs(s, e + 1))
                      ELSE JsonFail

\* the elements of an array from i (just before a value), up to its closing bracket
ParseElements(s, i) ==
    LET v == ParseValue(s, i)
        e == SkipWs(s, v.next)
    IN  IF ~v.ok THEN JsonFail
        ELSE IF StartsWithAt(s, <<"]">>, e) THEN JsonOk(e + 1, "array", TRUE)
        ELSE IF StartsWithAt(s, <<",">>, e) THEN ParseElements(s, SkipWs(s, e + 1))
        ELSE JsonFail

\* the JSON value starting at i: where it ends, its type, and its truth value
ParseValue(s, i) ==
    IF i >= Len(s) THEN JsonFail
    ELSE IF s[i + 1] = "{"
         THEN LET j == SkipWs(s, i + 1)
              IN  IF StartsWithAt(s, <<"}">>, j) THEN JsonOk(j + 1, "object", FALSE)
                  ELSE ParseMembers(s, j)
    ELSE IF s[i + 1] = "["
         THEN LET j == SkipWs(s, i + 1)
              IN  IF StartsWithAt(s, <<"]">>, j) THEN JsonOk(j + 1, "array", FALSE)
                  ELSE ParseElements(s, j)
    ELSE IF s[i + 1] = "\""
         THEN LET e == StringEnd(s, i + 1)
              IN  IF e = -1 THEN JsonFail ELSE JsonOk(e, "string", e > i + 2)
    ELSE IF StartsWithAt(s, <<"n", "u", "l", "l">>, i) THEN JsonOk(i + 4, "null", FALSE)
    ELSE IF StartsWithAt(s, <<"t", "r", "u", "e">>, i) THEN JsonOk(i + 4, "true", TRUE)
    ELSE IF StartsWithAt(s, <<"f", "a", "l", "s", "e">>, i) THEN JsonOk(i + 5, "false", FALSE)
    ELSE IF StartsWithAt(s, <<"N", "a", "N">>, i) THEN JsonOk(i + 3, "number", TRUE)
    ELSE ParseNumber(s, i)

\* json.loads(s): one value with optional whitespace around it, or a decode error
json_loads(s) ==
    LET v == ParseValue(s, SkipWs(s, 0))
    IN  IF v.ok /\ SkipWs(s, v.next) = Len(s) THEN v ELSE JsonFail

-----------------------------------------------------------------------------
(* Evaluation module: extraction and sanitizing of the completion reply *)

\* the backquote character; the string "BQ" stands for it, since a TLA+ string
\* literal cannot hold a backquote
BQ == "BQ"

Fence == <<BQ, BQ, BQ>>

JsonFence == Fence \o <<"j", "s", "o", "n">>

\* the loop of _extract_first_complete_json from index i
RECURSIVE ScanBraces(_, _, _, _)
ScanBraces(text, i, brace_count, start_idx) ==
    IF i >= Len(text) THEN <<>>
    ELSE IF text[i + 1] = "{"
         THEN ScanBraces(text, i + 1, brace_count + 1, IF start_idx = -1 THEN i ELSE start_idx)
    ELSE IF text[i + 1] = "}"
         THEN IF brace_count - 1 = 0 /\ start_idx # -1
              THEN Slice(text, start_idx, i + 1)
              ELSE ScanBraces(text, i + 1, brace_count - 1, start_idx)
    ELSE ScanBraces(text, i + 1, brace_count, start_idx)

\* _extract_first_complete_json: the first brace-balanced span, or ""
extract_first_complete_json(text) == ScanBraces(text, 0, 0, -1)

\* the comma-before-closer substitution of _clean_json_response
RECURSIVE RemoveTrailingCommas(_, _)
RemoveTrailingCommas(s, i) ==
    IF i >= Len(s) THEN <<>>
    ELSE LET j == SkipWs(s, i + 1)
         IN  IF s[i + 1] = "," /\ j < Len(s) /\ s[j + 1] \in {"}", "]"}
             THEN RemoveTrailingCommas(s, i + 1)
             ELSE <<s[i + 1]>> \o RemoveTrailingCommas(s, i + 1)

NullText == <<"n", "u", "l", "l">>

\* _clean_json_response
clean_json_response_SingleQuotedKept(json_text) ==
    LET a == Replace(json_text, <<"\"", "N", "/", "A", "\"">>, NullText)
        c == Replace(a, <<":", " ", "N", "/", "A">>, <<":", " ">> \o NullText)
        d == Replace(c, <<":", "N", "/", "A">>, <<":", " ">> \o NullText)
        e == Replace(Replace(d, <<"\n">>, <<" ">>), <<"\r">>, <<" ">>)
    IN  RemoveTrailingCommas(e, 0)

clean_json_response(json_text) ==
    LET a == Replace(json_text, <<"\"", "N", "/", "A", "\"">>, NullText)
        b == Replace(a, <<"'", "N", "/", "A", "'">>, NullText)
        c == Replace(b, <<":", " ", "N", "/", "A">>, <<":", " ">> \o NullText)
        d == Replace(c, <<":", "N", "/", "A">>, <<":", " ">> \o NullText)
        e == Replace(Replace(d, <<"\n">>, <<" ">>), <<"\r">>, <<" ">>)
    IN  RemoveTrailingCommas(e, 0)

NotFound == [found |-> FALSE, text |-> <<>>]

\* ExtractJsonContent with the leading-brace test tried before the fence test
ExtractJsonContent_BraceFirst(raw) ==
    LET content ==
            IF StartsWithAt(Strip(raw), <<"{">>, 0)
            THEN extract_first_complete_json(Strip(raw))
            ELSE IF Contains(raw, JsonFence)
            THEN LET json_start == Find(raw, JsonFence, 0) + 7
                     json_end   == Find(raw, Fence, json_start)
                 IN  Strip(Slice(raw, json_start, json_end))
            ELSE LET start_idx == Find(raw, <<"{">>, 0)
                 IN  IF start_idx # -1
                     THEN extract_first_complete_json(Slice(raw, start_idx, Len(raw)))
                     ELSE <<>>
    IN  IF content = <<>> THEN NotFound ELSE [found |-> TRUE, text |-> content]

\* the three-way extraction inside call_ollama_api; found is FALSE where the
\* code raises ValueError (no brace at all, or an empty extraction)
ExtractJsonContent(raw) ==
    LET content ==
            IF Contains(raw, JsonFence)
            THEN LET json_start == Find(raw, JsonFence, 0) + 7
                     json_end   == Find(raw, Fence, json_start)
                 IN  Strip(Slice(raw, json_start, json_end))
            ELSE IF StartsWithAt(Strip(raw), <<"{">>, 0)
            THEN extract_first_complete_json(Strip(raw))
            ELSE LET start_idx == Find(raw, <<"{">>, 0)
                 IN  IF start_idx # -1
                     THEN extract_first_complete_json(Slice(raw, start_idx, Len(raw)))
                     ELSE <<>>
    IN  IF content = <<>> THEN NotFound ELSE [found |-> TRUE, text |-> content]

-----------------------------------------------------------------------------
(* Completion clients *)

PyNone == [kind |-> "None", truthy |-> FALSE]

Pending == [outcome |-> "pending", kind |-> "None", truthy |-> FALSE]

Returned(v) == [outcome |-> "returned", kind |-> v.kind, truthy |-> v.truthy]

Raised == [outcome |-> "raised", kind |-> "None", truthy |-> FALSE]

\* the reply text call_ollama_api reads: response_data.get("response", "")
ReplyText(h) == IF h.body = "dict" THEN h.text ELSE <<>>

\* the try block of call_ollama_api: what it returns, or the exception it raises
OllamaTry(h) ==
    IF h.net # "ok" THEN [exc |-> "RequestException", value |-> PyNone]
    ELSE IF h.status # 200 THEN [exc |-> "none",  value |-> PyNone]
    ELSE IF h.body = "not_json" THEN [exc |-> "ValueError", value |-> PyNone]
    ELSE IF h.body = "json_not_dict" THEN [exc |-> "AttributeError", value |-> PyNone]
    ELSE IF h.body = "dict_response_not_text" THEN [exc |-> "TypeError", value |-> PyNone]
    ELSE LET x == ExtractJsonContent(ReplyText(h))
             v == json_loads(clean_json_response(x.text))
         IN  IF ~x.found THEN [exc |-> "ValueError", value |-> PyNone]
             ELSE IF ~v.ok THEN [exc |-> "JSONDecodeError", value |-> PyNone]
             ELSE [exc |-> "none", value |-> [kind |-> v.kind, truthy |-> v.truthy]]

\* call_ollama_api without its outer "except Exception" handler
call_ollama_api_NoOuterHandler(h) ==
    LET t == OllamaTry(h)
    IN  IF t.exc = "none" THEN Returned(t.value)
        ELSE IF t.exc = "JSONDecodeError" THEN Returned(PyNone)
        ELSE Raised

\* call_ollama_api: both handlers (JSONDecodeError, Exception) return None
call_ollama_api(h) ==
    LET t == OllamaTry(h)
    IN  IF t.exc = "none" THEN Returned(t.value) ELSE Returned(PyNone)

\* the exception the try block of call_llama3 raises, or "none"
LlamaTry(h) ==
    IF h.net # "ok" THEN "RequestException"
    ELSE IF h.status >= 400 /\ h.status < 600 THEN "RequestException"
    ELSE IF h.body = "not_json" THEN "RequestException"
    ELSE IF h.body = "json_not_dict" THEN "AttributeError"
    ELSE "none"

\* call_llama3: only requests.exceptions.RequestException is handled
call_llama3(h) ==
    LET exc == LlamaTry(h)
    IN  IF exc = "none" THEN [outcome |-> "returned", text |-> ReplyText(h)]
        ELSE IF exc = "RequestException" THEN [outcome |-> "returned", text |-> <<>>]
        ELSE [outcome |-> "raised", text |-> <<>>]

-----------------------------------------------------------------------------
(* The completion endpoint's possible behaviours *)

ReplyChunks ==
    { <<"{">>, <<"}">>, <<"\"", "k", "\"", ":">>, <<"1">>, <<"\"", "}", "\"">>,
      <<"[", "1", "]">>, JsonFence, Fence, <<"x">>, <<" ">> }

Replies == { Flatten(cs) : cs \in UNION { [1..n -> ReplyChunks] : n \in 0..MaxChunks } }

SmallObject == <<"{", "\"", "k", "\"", ":", "1", "}">>

Http(net, status, body, text) ==
    [net |-> net, status |-> status, body |-> body, text |-> text]

HttpBehaviours ==
    { Http(n, 0, "none", <<>>) : n \in {"timeout", "connection_error"} }
    \cup { Http("ok", 200, "dict", t) : t \in Replies }
    \cup { Http("ok", s, "dict", t) : s \in {300, 404, 500}, t \in {<<>>, SmallObject} }
    \cup { Http("ok", s, b, <<>>) :
             s \in {200, 500},
             b \in {"not_json", "json_not_dict", "dict_no_response", "dict_response_not_text"} }

-----------------------------------------------------------------------------
(* Templates: JSON trees as Python holds them *)

\* A tree is a function from paths to nodes. A path is the sequence of dict
\* keys (and list positions, written "#0", "#1", ...) from the root; a node
\* gives the Python type of the value there and, for a scalar, its value.
Node(t, s, n) == [t |-> t, s |-> s, n |-> n]

Leaf(node) == [p \in {<<>>} |-> node]

PyStr(s) == Leaf(Node("str", s, 0))

PyInt(n) == Leaf(Node("int", <<>>, n))

PyBool(b) == Leaf(Node("bool", <<>>, IF b THEN 1 ELSE 0))

PyNull == Leaf(Node("null", <<>>, 0))

\* the dict whose keys are the fields of the record r, each holding a tree
PyDict(r) ==
    [p \in {<<>>} \cup UNION {{<<k>> \o q : q \in DOMAIN r[k]} : k \in DOMAIN r} |->
        IF p = <<>> THEN Node("dict", <<>>, 0) ELSE r[Head(p)][Tail(p)]]

ListKeys == <<"#0", "#1", "#2", "#3">>

\* the list whose items are the trees of the sequence items
PyList(items) ==
    [p \in {<<>>} \cup UNION {{<<ListKeys[i]>> \o q : q \in DOMAIN items[i]} : i \in 1..Len(items)} |->
        IF p = <<>> THEN Node("list", <<>>, 0)
        ELSE items[CHOOSE i \in 1..Len(items) : ListKeys[i] = Head(p)][Tail(p)]]

IsPrefix(p, q) == Len(p) <= Len(q) /\ SubSeq(q, 1, Len(p)) = p

Parent(p) == SubSeq(p, 1, Len(p) - 1)

\* the value found at path in tree
Subtree(tree, path) ==
    [q \in {SubSeq(p, Len(path) + 1, Len(p)) : p \in {x \in DOMAIN tree : IsPrefix(path, x)}} |->
        tree[path \o q]]

\* tree after binding path to value: what was below path is gone, and the
\* dicts on the way that did not exist are there
Graft(tree, path, value) ==
    LET keep == {q \in DOMAIN tree : ~IsPrefix(path, q)}
        new  == {path \o q : q \in DOMAIN value}
        mids == {SubSeq(path, 1, k) : k \in 0..(Len(path) - 1)}
    IN  [q \in keep \cup new \cup mids |->
            IF q \in new THEN value[SubSeq(q, Len(path) + 1, Len(q))]
            ELSE IF q \in DOMAIN tree THEN tree[q]
            ELSE Node("dict", <<>>, 0)]

\* Python's ==: numbers and booleans compare by value, the rest by type and content
NodeEq(a, b) ==
    IF a.t \in {"int", "bool"} /\ b.t \in {"int", "bool"} THEN a.n = b.n ELSE a = b

PyEq(a, b) == DOMAIN a = DOMAIN b /\ \A p \in DOMAIN a : NodeEq(a[p], b[p])

\* Python's truth value
Truthy(v) ==
    CASE v[<<>>].t \in {"dict", "list"} -> DOMAIN v # {<<>>}
      [] v[<<>>].t = "str" -> v[<<>>].s # <<>>
      [] v[<<>>].t \in {"int", "bool"} -> v[<<>>].n # 0
      [] OTHER -> FALSE

\* every proper prefix of path is a dict of tree
DictsOnTheWay(tree, path) ==
    \A k \in 0..(Len(path) - 1) :
        SubSeq(path, 1, k) \in DOMAIN tree /\ tree[SubSeq(path, 1, k)].t = "dict"

\* data[k1][k2]...[kn] = value: KeyError when a dict on the way is missing,
\* TypeError when something on the way is not a dict
SetItem(data, path, value) ==
    IF DictsOnTheWay(data, path) THEN [ok |-> TRUE, tree |-> Graft(data, path, value)]
    ELSE [ok |-> FALSE, tree |-> data]

\* set_nested_value(data, path, value): creates the dicts that are missing on
\* the way; TypeError when something on the way exists and is not a dict
set_nested_value(data, path, value) ==
    IF \E k \in 1..(Len(path) - 1) :
           SubSeq(path, 1, k) \in DOMAIN data /\ data[SubSeq(path, 1, k)].t # "dict"
    THEN [ok |-> FALSE, tree |-> data]
    ELSE [ok |-> TRUE, tree |-> Graft(data, path, value)]

\* get_nested_value(data, path): None when a key is missing or something on
\* the way cannot be indexed by a key
get_nested_value(data, path) ==
    IF path \in DOMAIN data /\ DictsOnTheWay(data, path) THEN Subtree(data, path) ELSE PyNull

-----------------------------------------------------------------------------
(* Field table of the intelligent parser and the coercion of raw values *)

\* the characters of the words the code compares field paths and raw values with
TextOf ==
    [ jobProfile |-> <<"j", "o", "b", "P", "r", "o", "f", "i", "l", "e">>,
      JobId |-> <<"J", "o", "b", "I", "d">>,
      coreDetails |-> <<"c", "o", "r", "e", "D", "e", "t", "a", "i", "l", "s">>,
      title |-> <<"t", "i", "t", "l", "e">>,
      jobSummary |-> <<"j", "o", "b", "S", "u", "m", "m", "a", "r", "y">>,
      employmentType |-> <<"e", "m", "p", "l", "o", "y", "m", "e", "n", "t", "T", "y", "p", "e">>,
      agreement |-> <<"a", "g", "r", "e", "e", "m", "e", "n", "t">>,
      schedule |-> <<"s", "c", "h", "e", "d", "u", "l", "e">>,
      term |-> <<"t", "e", "r", "m">>,
      jobLocation |-> <<"j", "o", "b", "L", "o", "c", "a", "t", "i", "o", "n">>,
      type |-> <<"t", "y", "p", "e">>,
      applicantLocationRequirement |-> <<"a", "p", "p", "l", "i", "c", "a", "n", "t", "L", "o", "c", "a", "t", "i", "o", "n", "R", "e", "q", "u", "i", "r", "e", "m", "e", "n", "t">>,
      responsibilities |-> <<"r", "e", "s", "p", "o", "n", "s", "i", "b", "i", "l", "i", "t", "i", "e", "s">>,
      dayToDayDuties |-> <<"d", "a", "y", "T", "o", "D", "a", "y", "D", "u", "t", "i", "e", "s">>,
      keyObjectives |-> <<"k", "e", "y", "O", "b", "j", "e", "c", "t", "i", "v", "e", "s">>,
      qualifications |-> <<"q", "u", "a", "l", "i", "f", "i", "c", "a", "t", "i", "o", "n", "s">>,
      skills |-> <<"s", "k", "i", "l", "l", "s">>,
      technical |-> <<"t", "e", "c", "h", "n", "i", "c", "a", "l">>,
      soft |-> <<"s", "o", "f", "t">>,
      experience |-> <<"e", "x", "p", "e", "r", "i", "e", "n", "c", "e">>,
      requiredYears |-> <<"r", "e", "q", "u", "i", "r", "e", "d", "Y", "e", "a", "r", "s">>,
      description |-> <<"d", "e", "s", "c", "r", "i", "p", "t", "i", "o", "n">>,
      education |-> <<"e", "d", "u", "c", "a", "t", "i", "o", "n">>,
      requiredCredential |-> <<"r", "e", "q", "u", "i", "r", "e", "d", "C", "r", "e", "d", "e", "n", "t", "i", "a", "l">>,
      acceptsExperienceInLieu |-> <<"a", "c", "c", "e", "p", "t", "s", "E", "x", "p", "e", "r", "i", "e", "n", "c", "e", "I", "n", "L", "i", "e", "u">>,
      companyContext |-> <<"c", "o", "m", "p", "a", "n", "y", "C", "o", "n", "t", "e", "x", "t">>,
      culture |-> <<"c", "u", "l", "t", "u", "r", "e">>,
      growthOpportunities |-> <<"g", "r", "o", "w", "t", "h", "O", "p", "p", "o", "r", "t", "u", "n", "i", "t", "i", "e", "s">>,
      compensation |-> <<"c", "o", "m", "p", "e", "n", "s", "a", "t", "i", "o", "n">>,
      salary |-> <<"s", "a", "l", "a", "r", "y">>,
      min |-> <<"m", "i", "n">>,
      max |-> <<"m", "a", "x">>,
      currency |-> <<"c", "u", "r", "r", "e", "n", "c", "y">>,
      benefits |-> <<"b", "e", "n", "e", "f", "i", "t", "s">>,
      duties |-> <<"d", "u", "t", "i", "e", "s">>,
      true |-> <<"t", "r", "u", "e">>,
      yes |-> <<"y", "e", "s">>,
      equivalent |-> <<"e", "q", "u", "i", "v", "a", "l", "e", "n", "t">> ]

OPEN == <<"O", "P", "E", "N">>

USD == <<"U", "S", "D">>

UpperCase == <<"A", "B", "C", "D", "E", "F", "G", "H", "I", "J", "K", "L", "M", "N", "O", "P", "Q", "R", "S", "T", "U", "V", "W", "X", "Y", "Z">>

LowerCase == <<"a", "b", "c", "d", "e", "f", "g", "h", "i", "j", "k", "l", "m", "n", "o", "p", "q", "r", "s", "t", "u", "v", "w", "x", "y", "z">>

\* _initialize_field_mappings: the path and the default of each entry, in order
field_mappings ==
    << [path |-> <<"jobProfile", "JobId">>, default |-> PyStr(OPEN)],
       [path |-> <<"jobProfile", "coreDetails", "title">>, default |-> PyStr(OPEN)],
       [path |-> <<"jobProfile", "coreDetails", "jobSummary">>, default |-> PyStr(OPEN)],
       [path |-> <<"jobProfile", "coreDetails", "employmentType", "agreement">>, default |-> PyStr(OPEN)],
       [path |-> <<"jobProfile", "coreDetails", "employmentType", "schedule">>, default |-> PyStr(OPEN)],
       [path |-> <<"jobProfile", "coreDetails", "employmentType", "term">>, default |-> PyStr(OPEN)],
       [path |-> <<"jobProfile", "coreDetails", "jobLocation", "type">>, default |-> PyStr(OPEN)],
       [path |-> <<"jobProfile", "coreDetails", "jobLocation", "applicantLocationRequirement">>, default |-> PyStr(OPEN)],
       [path |-> <<"jobProfile", "responsibilities", "dayToDayDuties">>, default |-> PyList(<<>>)],
       [path |-> <<"jobProfile", "responsibilities", "keyObjectives">>, default |-> PyList(<<>>)],
       [path |-> <<"jobProfile", "qualifications", "skills", "technical">>, default |-> PyList(<<>>)],
       [path |-> <<"jobProfile", "qualifications", "skills", "soft">>, default |-> PyList(<<>>)],
       [path |-> <<"jobProfile", "qualifications", "experience", "requiredYears">>, default |-> PyInt(0)],
       [path |-> <<"jobProfile", "qualifications", "experience", "description">>, default |-> PyStr(OPEN)],
       [path |-> <<"jobProfile", "qualifications", "education", "requiredCredential">>, default |-> PyStr(OPEN)],
       [path |-> <<"jobProfile", "qualifications", "education", "acceptsExperienceInLieu">>, default |-> PyBool(FALSE)],
       [path |-> <<"jobProfile", "companyContext", "culture">>, default |-> PyStr(OPEN)],
       [path |-> <<"jobProfile", "companyContext", "growthOpportunities">>, default |-> PyStr(OPEN)],
       [path |-> <<"jobProfile", "compensation", "salary", "min">>, default |-> PyInt(0)],
       [path |-> <<"jobProfile", "compensation", "salary", "max">>, default |-> PyInt(0)],
       [path |-> <<"jobProfile", "compensation", "salary", "currency">>, default |-> PyStr(USD)],
       [path |-> <<"jobProfile", "compensation", "benefits">>, default |-> PyList(<<>>)] >>

\* field_path: the keys of a path joined by dots
RECURSIVE PathText(_)
PathText(path) ==
    IF Len(path) = 0 THEN <<>>
    ELSE IF Len(path) = 1 THEN TextOf[path[1]]
    ELSE TextOf[path[1]] \o <<".">> \o PathText(Tail(path))

\* s.endswith(sub)
EndsWith(s, sub) == Len(sub) <= Len(s) /\ SubSeq(s, Len(s) - Len(sub) + 1, Len(s)) = sub

\* s.lower()
Lower(s) ==
    [i \in 1..Len(s) |->
        IF \E k \in 1..Len(UpperCase) : UpperCase[k] = s[i]
        THEN LowerCase[CHOOSE k \in 1..Len(UpperCase) : UpperCase[k] = s[i]]
        ELSE s[i]]

DigitChars == <<"0", "1", "2", "3", "4", "5", "6", "7", "8", "9">>

\* int(ds) for a run of digits
RECURSIVE ToInt(_)
ToInt(ds) ==
    IF ds = <<>> THEN 0
    ELSE ToInt(SubSeq(ds, 1, Len(ds) - 1)) * 10
             + ((CHOOSE d \in 1..10 : DigitChars[d] = ds[Len(ds)]) - 1)

\* re.search(r'(\d+)', s): the first run of digits, "" when there is none
FirstDigits(s) ==
    LET at == {i \in 0..(Len(s) - 1) : s[i + 1] \in Digits}
    IN  IF at = {} THEN <<>> ELSE Slice(s, MinOf(at), DigitsEnd(s, MinOf(at)))

\* s.split(sep) for a one-character separator
RECURSIVE Split(_, _)
Split(s, sep) ==
    LET i == Find(s, <<sep>>, 0)
    IN  IF i < 0 THEN <<s>> ELSE <<Slice(s, 0, i)>> \o Split(Slice(s, i + 1, Len(s)), sep)

\* the stripped, non-empty members of parts
RECURSIVE StrippedNonEmpty(_)
StrippedNonEmpty(parts) ==
    IF parts = <<>> THEN <<>>
    ELSE (IF Strip(Head(parts)) = <<>> THEN <<>> ELSE <<Strip(Head(parts))>>)
             \o StrippedNonEmpty(Tail(parts))

Quotes == {"\"", "'"}

\* item.strip('\'"')
StripQuotes(s) ==
    LET keep == {i \in 1..Len(s) : s[i] \notin Quotes}
    IN  IF keep = {} THEN <<>>
        ELSE SubSeq(s, MinOf(keep), CHOOSE x \in keep : \A y \in keep : y <= x)

\* re.sub(r'^.*?=\s*["\']?', '', item): what precedes the first '=' goes
\* with it, and the blanks and one quote after it
AfterEquals(item, eq, j) ==
    IF eq < 0 THEN item
    ELSE IF j < Len(item) /\ item[j + 1] \in Quotes
    THEN Slice(item, j + 1, Len(item)) ELSE Slice(item, j, Len(item))

\* re.sub(r'["\']?\s*$', '', a): the blanks at the end go, and one quote before them
BeforeBlanks(a, nb) ==
    IF nb = {} THEN <<>>
    ELSE IF a[CHOOSE x \in nb : \A y \in nb : y <= x] \in Quotes
    THEN SubSeq(a, 1, (CHOOSE x \in nb : \A y \in nb : y <= x) - 1)
    ELSE SubSeq(a, 1, CHOOSE x \in nb : \A y \in nb : y <= x)

NonBlanks(a) == {i \in 1..Len(a) : a[i] \notin Whitespace}

CleanTail(a) == StripQuotes(BeforeBlanks(a, NonBlanks(a)))

\* the cleaning of one list item in parse_extracted_value
CleanItem(item) ==
    CleanTail(AfterEquals(item, Find(item, <<"=">>, 0), SkipWs(item, Find(item, <<"=">>, 0) + 1)))

RECURSIVE CleanedItems(_)
CleanedItems(items) ==
    IF items = <<>> THEN <<>>
    ELSE (IF CleanItem(Head(items)) \in {<<>>, OPEN} THEN <<>> ELSE <<PyStr(CleanItem(Head(items)))>>)
             \o CleanedItems(Tail(items))

\* one entry of keyObjectives
Objective(obj) ==
    PyDict([objective |-> PyStr(obj), timeframe |-> PyStr(OPEN), metric |-> PyStr(OPEN)])

\* parse_extracted_value(raw_value, field_path, default_value)
parse_extracted_value(raw_value, path, default_value) ==
    LET field_path == PathText(path)
        In(word)   == Contains(field_path, word)
    IN  IF raw_value = OPEN \/ raw_value = <<>> THEN default_value
        ELSE IF In(TextOf.requiredYears)
        THEN PyInt(ToInt(FirstDigits(raw_value)))
        ELSE IF In(TextOf.acceptsExperienceInLieu)
        THEN PyBool(\/ Contains(Lower(raw_value), TextOf.true)
                    \/ Contains(Lower(raw_value), TextOf.yes)
                    \/ Contains(Lower(raw_value), TextOf.equivalent))
        ELSE IF In(TextOf.salary) /\ (In(TextOf.min) \/ In(TextOf.max))
        THEN PyInt(ToInt(Slice(FirstDigits(Replace(raw_value, <<",">>, <<>>)), 0, 3)))
        ELSE IF \/ EndsWith(field_path, TextOf.duties) \/ EndsWith(field_path, TextOf.benefits)
                \/ EndsWith(field_path, TextOf.technical) \/ EndsWith(field_path, TextOf.soft)
        THEN PyList(CleanedItems(IF Contains(raw_value, <<"|">>)
                                 THEN StrippedNonEmpty(Split(raw_value, "|"))
                                 ELSE <<raw_value>>))
        ELSE IF In(TextOf.keyObjectives)
        THEN LET objs == IF Contains(raw_value, <<"|">>)
                         THEN StrippedNonEmpty(Split(raw_value, "|")) ELSE <<raw_value>>
             IN  PyList([i \in 1..Len(objs) |-> Objective(objs[i])])
        ELSE PyStr(raw_value)

-----------------------------------------------------------------------------
(* intelligently_fill_template and its passes *)

Done(tree) == [ok |-> TRUE, tree |-> tree]

\* fill_template_recursively is applied to the dict at p: the root, a dict
\* held by such a dict, or a dict that is an item of a list held by one
RECURSIVE Walked(_, _)
Walked(tree, p) ==
    /\ tree[p].t = "dict"
    /\ \/ p = <<>>
       \/ Walked(tree, Parent(p))
       \/ /\ Len(p) >= 2
          /\ tree[Parent(p)].t = "list"
          /\ Walked(tree, Parent(Parent(p)))

\* what fill_template_recursively makes of the value under key
FillLeaf(key, node) ==
    IF node.t = "str" /\ node.s = <<>> THEN Node("str", OPEN, 0)
    ELSE IF node.t \in {"int", "bool"} /\ node.n = 0 /\ key # "requiredYears" THEN Node("int", <<>>, 0)
    ELSE node

\* _ensure_complete_template_structure(template)
ensure_complete_template_structure(tree) ==
    [p \in DOMAIN tree |->
        IF Len(p) > 0 /\ Walked(tree, Parent(p)) THEN FillLeaf(p[Len(p)], tree[p]) ELSE tree[p]]

\* the loop over field_mappings from entry i on; raw_values[i] is what
\* extract_field_specific_info returned for entry i
\* the write, if any, the loop makes for one entry of field_mappings
OverlayField_OnlyIfDiffers(tree, path, default, parsed_value, current_value) ==
    IF ~PyEq(parsed_value, default) /\ ~PyEq(parsed_value, PyStr(OPEN))
    THEN set_nested_value(tree, path, parsed_value)
    ELSE IF PyEq(parsed_value, PyStr(OPEN)) /\ ~PyEq(default, PyStr(OPEN))
    THEN set_nested_value(tree, path, default)
    ELSE Done(tree)

OverlayField(tree, path, default, parsed_value, current_value) ==
    IF \/ current_value = PyNull
       \/ (~PyEq(parsed_value, default) /\ ~PyEq(parsed_value, PyStr(OPEN)))
    THEN set_nested_value(tree, path, parsed_value)
    ELSE IF PyEq(parsed_value, PyStr(OPEN)) /\ ~PyEq(default, PyStr(OPEN))
    THEN set_nested_value(tree, path, default)
    ELSE Done(tree)

RECURSIVE Overlay(_, _, _)
\* the loop goes on after the write w unless the write raised
OverlayRest(w, raws, i) == IF w.ok THEN Overlay(w.tree, raws, i) ELSE w

\* the loop over field_mappings from entry i on; raws[i] is what
\* extract_field_specific_info returned for entry i
Overlay(tree, raws, i) ==
    IF i > Len(field_mappings) THEN Done(tree)
    ELSE IF field_mappings[i].path = <<"jobProfile", "JobId">> THEN Overlay(tree, raws, i + 1)
    ELSE OverlayRest(
             OverlayField(tree, field_mappings[i].path, field_mappings[i].default,
                 parse_extracted_value(raws[i], field_mappings[i].path, field_mappings[i].default),
                 get_nested_value(tree, field_mappings[i].path)),
             raws, i + 1)

\* set_nested_value for each write in turn, up to the first that raises
RECURSIVE SetEach(_, _)
SetEachRest(w, writes) == IF w.ok THEN SetEach(w.tree, writes) ELSE w

SetEach(tree, writes) ==
    IF writes = <<>> THEN Done(tree)
    ELSE SetEachRest(set_nested_value(tree, Head(writes).path, Head(writes).value), Tail(writes))

Sections ==
    <<"coreDetails", "responsibilities", "qualifications", "companyContext",
      "compensation", "interviewGuidance">>

InterviewFlowPath == <<"jobProfile", "interviewGuidance", "interviewFlow">>

\* the loop over the stages raises: the flow is truthy and not a list of
\* dicts, or a non-empty "questions" list holds something that is not a dict
InterviewFlowRaises(tree) ==
    LET F == InterviewFlowPath
    IN  /\ Truthy(get_nested_value(tree, F))
        /\ \/ tree[F].t # "list"
           \/ \E p \in DOMAIN tree : Len(p) = Len(F) + 1 /\ IsPrefix(F, p) /\ tree[p].t # "dict"
           \/ \E p \in DOMAIN tree :
                 /\ Len(p) = Len(F) + 3 /\ IsPrefix(F, p)
                 /\ p[Len(F) + 2] = "questions" /\ tree[Parent(p)].t = "list"
                 /\ tree[p].t # "dict"

\* the leaves the loop over the stages resets, each with what it becomes
InterviewFlowResets(tree) ==
    LET F == InterviewFlowPath
        stageKeys == {p \in DOMAIN tree : Len(p) = Len(F) + 2 /\ IsPrefix(F, p)}
        questionKeys ==
            {p \in DOMAIN tree :
                /\ Len(p) = Len(F) + 4 /\ IsPrefix(F, p)
                /\ p[Len(F) + 2] = "questions" /\ tree[SubSeq(p, 1, Len(F) + 2)].t = "list"}
    IN  {[path |-> p, to |-> "OPEN"] : p \in {q \in stageKeys \cup questionKeys : tree[q].t = "str"}}
        \cup {[path |-> p, to |-> "0"] : p \in {q \in stageKeys : tree[q].t \in {"int", "bool"}}}
        \cup {[path |-> p, to |-> "[OPEN]"] :
                 p \in {q \in stageKeys : tree[q].t = "list" /\ q[Len(q)] = "evaluators"}}
        \cup {[path |-> p, to |-> "[OPEN]"] : p \in {q \in questionKeys : tree[q].t = "list"}}

ResetValue(to) ==
    CASE to = "OPEN" -> PyStr(OPEN)
      [] to = "0" -> PyInt(0)
      [] to = "[OPEN]" -> PyList(<<PyStr(OPEN)>>)

RECURSIVE ApplyResets(_, _)
ApplyResets(tree, resets) ==
    IF resets = {} THEN tree
    ELSE LET r == CHOOSE x \in resets : TRUE
         IN  ApplyResets(Graft(tree, r.path, ResetValue(r.to)), resets \ {r})

\* the part of _fill_special_template_fields from the interview flow on,
\* given the outcome a of the writes before it
SpecialFieldsRest(a, custom) ==
    IF ~a.ok THEN a
    ELSE IF InterviewFlowRaises(a.tree) THEN [ok |-> FALSE, tree |-> a.tree]
    ELSE SetEach(IF Truthy(get_nested_value(a.tree, InterviewFlowPath))
                 THEN ApplyResets(a.tree, InterviewFlowResets(a.tree))
                 ELSE a.tree,
                 custom)

\* _fill_special_template_fields(template)
fill_special_template_fields(tree) ==
    LET tags  == [i \in 1..Len(Sections) |->
                     [path |-> <<"jobProfile", Sections[i], "customTags">>, value |-> PyList(<<>>)]]
        notes == [i \in 1..Len(Sections) |->
                     [path |-> <<"jobProfile", Sections[i], "extraNotes">>, value |-> PyStr(OPEN)]]
        plans == << [path |-> <<"jobProfile", "interviewGuidance", "assessmentPlan">>,
                     value |-> PyList(<<>>)],
                    [path |-> <<"jobProfile", "interviewGuidance", "competencyProfile">>,
                     value |-> PyList(<<>>)] >>
        custom == [i \in 1..3 |->
                     [path |-> <<"jobProfile", "meta", "customFields",
                                 <<"hardwareRequirement", "timezoneOverlap", "clearance">>[i]>>,
                      value |-> PyStr(OPEN)]]
    IN  SpecialFieldsRest(SetEach(tree, tags \o notes \o plans), custom)

\* SetItem for each write in turn, up to the first that raises
RECURSIVE SetItems(_, _)
SetItemsRest(w, writes) == IF w.ok THEN SetItems(w.tree, writes) ELSE w

SetItems(tree, writes) ==
    IF writes = <<>> THEN Done(tree)
    ELSE SetItemsRest(SetItem(tree, Head(writes).path, Head(writes).value), Tail(writes))

\* str(int(datetime.now().timestamp()))
Timestamp == <<"1", "7", "6", "2">>

\* the metadata stamps at the end of intelligently_fill_template
StampMeta(c) ==
    IF ~c.ok THEN c
    ELSE SetItems(c.tree,
             << [path |-> <<"jobProfile", "meta", "lastUpdated">>, value |-> PyStr(Timestamp)],
                [path |-> <<"jobProfile", "meta", "source">>, value |-> PyStr(<<"A", "I", "-", "E", "x", "t", "r", "a", "c", "t", "e", "d">>)],
                [path |-> <<"jobProfile", "meta", "schemaVersion">>, value |-> PyStr(<<"v", "1", ".", "1">>)] >>)

\* the third step, after the overlay with outcome b
ThenSpecialFields(b) == IF b.ok THEN fill_special_template_fields(b.tree) ELSE b

\* the first and second steps, after the identifier was set with outcome a
ThenStructureAndOverlay(a, raws) ==
    IF a.ok THEN Overlay(ensure_complete_template_structure(a.tree), raws, 1) ELSE a

\* intelligently_fill_template(template, job_description, template_id), where
\* raws are the values extract_field_specific_info gets for the fields out
\* of job_description. ok is FALSE when the call raises.
intelligently_fill_template(tmpl, raws, template_id) ==
    StampMeta(ThenSpecialFields(ThenStructureAndOverlay(
        SetItem(tmpl, <<"jobProfile", "JobId">>, PyStr(template_id)), raws)))

\* the entries of field_mappings, from entry i on, for which the loop calls
\* extract_field_specific_info, and with it call_llama3, when the completion
\* asked for entry raised_at raises (0: none does): the loop ends at the
\* first call or write that raises
RECURSIVE FieldCallsFrom(_, _, _, _)
FieldCallsAfter(w, raws, i, raised_at) ==
    IF w.ok THEN FieldCallsFrom(w.tree, raws, i, raised_at) ELSE <<>>

FieldCallsFrom(tree, raws, i, raised_at) ==
    IF i > Len(field_mappings) THEN <<>>
    ELSE IF field_mappings[i].path = <<"jobProfile", "JobId">>
    THEN FieldCallsFrom(tree, raws, i + 1, raised_at)
    ELSE IF i = raised_at THEN <<i>>
    ELSE <<i>> \o FieldCallsAfter(
             OverlayField(tree, field_mappings[i].path, field_mappings[i].default,
                 parse_extracted_value(raws[i], field_mappings[i].path, field_mappings[i].default),
                 get_nested_value(tree, field_mappings[i].path)),
             raws, i + 1, raised_at)

\* the calls of one intelligently_fill_template, given the outcome a of
\* setting the identifier
ExtractionCalls(a, raws, raised_at) ==
    IF a.ok THEN FieldCallsFrom(ensure_complete_template_structure(a.tree), raws, 1, raised_at)
    ELSE <<>>

Range(seq) == {seq[j] : j \in 1..Len(seq)}

\* the entries whose completion may raise: none, the first one asked, and one
\* further down the table; a completion raises when call_llama3 does
CompletionRaisedAt ==
    {0} \cup {i \in {2, 13} : \E h \in HttpBehaviours : call_llama3(h).outcome = "raised"}

-----------------------------------------------------------------------------
(* fill_json_template of the v1.0 parsers *)

ExtractedKeys ==
    {"JOB_TITLE", "JOB_SUMMARY", "EMPLOYMENT_TYPE", "SCHEDULE", "TERM", "LOCATION_TYPE",
     "LOCATION_REQUIREMENT", "KEY_OBJECTIVES", "DAY_TO_DAY_DUTIES", "TECHNICAL_SKILLS",
     "SOFT_SKILLS", "REQUIRED_YEARS", "EXPERIENCE_DESCRIPTION", "EDUCATION_REQUIRED",
     "ACCEPTS_EXPERIENCE_IN_LIEU", "COMPANY_CULTURE", "GROWTH_OPPORTUNITIES", "SALARY_MIN",
     "SALARY_MAX", "CURRENCY", "BENEFITS", "COMPETENCY_PROFILE", "ASSESSMENT_PLAN"}

\* an entry of extracted_data: whether the key is there, and its text
Absent == [has |-> FALSE, text |-> <<>>]

Present(text) == [has |-> TRUE, text |-> text]

\* extracted_data.get(key, default)
DictGet(d, key, default) == IF d[key].has THEN d[key].text ELSE default

\* extracted_data.get(key) and extracted_data[key] != "OPEN"
Determined(d, key) == d[key].has /\ d[key].text # <<>> /\ d[key].text # OPEN

\* [x.strip() for x in text.split("|") if x.strip()]
ItemList(text) ==
    LET items == StrippedNonEmpty(Split(text, "|"))
    IN  PyList([i \in 1..Len(items) |-> PyStr(items[i])])

ObjectiveList(text) ==
    LET items == StrippedNonEmpty(Split(text, "|"))
    IN  PyList([i \in 1..Len(items) |-> Objective(items[i])])

\* int(text) does not raise ValueError: blanks, a sign, digits
IntParses(text) ==
    LET t == Strip(text)
        d == IF t # <<>> /\ t[1] \in {"+", "-"} THEN Tail(t) ELSE t
    IN  d # <<>> /\ \A i \in 1..Len(d) : d[i] \in Digits

IntOf(text) ==
    LET t == Strip(text)
    IN  IF t[1] = "-" THEN 0 - ToInt(Tail(t))
        ELSE IF t[1] = "+" THEN ToInt(Tail(t)) ELSE ToInt(t)

\* fill_json_template(template, extracted_data[, template_id]): the item
\* assignments of the function in order, applied to the value the copy shares
\* with the template. ok is FALSE when one of them raises; tree is the tree
\* as the call leaves it.
fill_json_template(tmpl, extracted, job_id) ==
    LET d == extracted
        W(path, value) == <<[path |-> <<"jobProfile">> \o path, value |-> value]>>
        T(path, key) == W(path, PyStr(DictGet(d, key, OPEN)))
        L(path, key) == IF Determined(d, key) THEN W(path, ItemList(d[key].text)) ELSE <<>>
        salaryOk == /\ IntParses(DictGet(d, "SALARY_MIN", <<"0">>))
                    /\ IntParses(DictGet(d, "SALARY_MAX", <<"0">>))
    IN  SetItems(tmpl,
            W(<<"JobId">>, PyStr(job_id))
         \o T(<<"coreDetails", "title">>, "JOB_TITLE")
         \o T(<<"coreDetails", "jobSummary">>, "JOB_SUMMARY")
         \o T(<<"coreDetails", "employmentType", "agreement">>, "EMPLOYMENT_TYPE")
         \o T(<<"coreDetails", "employmentType", "schedule">>, "SCHEDULE")
         \o T(<<"coreDetails", "employmentType", "term">>, "TERM")
         \o T(<<"coreDetails", "jobLocation", "type">>, "LOCATION_TYPE")
         \o T(<<"coreDetails", "jobLocation", "applicantLocationRequirement">>, "LOCATION_REQUIREMENT")
         \o (IF Determined(d, "KEY_OBJECTIVES")
             THEN W(<<"responsibilities", "keyObjectives">>, ObjectiveList(d["KEY_OBJECTIVES"].text))
             ELSE <<>>)
         \o L(<<"responsibilities", "dayToDayDuties">>, "DAY_TO_DAY_DUTIES")
         \o L(<<"qualifications", "skills", "technical">>, "TECHNICAL_SKILLS")
         \o L(<<"qualifications", "skills", "soft">>, "SOFT_SKILLS")
         \o W(<<"qualifications", "experience", "requiredYears">>,
              PyInt(ToInt(FirstDigits(DictGet(d, "REQUIRED_YEARS", <<"0">>)))))
         \o T(<<"qualifications", "experience", "description">>, "EXPERIENCE_DESCRIPTION")
         \o T(<<"qualifications", "education", "requiredCredential">>, "EDUCATION_REQUIRED")
         \o W(<<"qualifications", "education", "acceptsExperienceInLieu">>,
              PyBool(Lower(DictGet(d, "ACCEPTS_EXPERIENCE_IN_LIEU", <<"f", "a", "l", "s", "e">>))
                         = TextOf.true))
         \o T(<<"companyContext", "culture">>, "COMPANY_CULTURE")
         \o T(<<"companyContext", "growthOpportunities">>, "GROWTH_OPPORTUNITIES")
         \o W(<<"compensation", "salary", "min">>,
              PyInt(IF salaryOk THEN IntOf(DictGet(d, "SALARY_MIN", <<"0">>)) ELSE 0))
         \o W(<<"compensation", "salary", "max">>,
              PyInt(IF salaryOk THEN IntOf(DictGet(d, "SALARY_MAX", <<"0">>)) ELSE 0))
         \o W(<<"compensation", "salary", "currency">>, PyStr(DictGet(d, "CURRENCY", USD)))
         \o L(<<"compensation", "benefits">>, "BENEFITS")
         \o L(<<"interviewGuidance", "competencyProfile">>, "COMPETENCY_PROFILE")
         \o L(<<"interviewGuidance", "assessmentPlan">>, "ASSESSMENT_PLAN")
         \o W(<<"meta", "lastUpdated">>, PyStr(Timestamp)))

\* the template the caller holds once the call is over: a copy made by
\* dict.copy() has its own top level and shares every value below it
CallerView(copy, before, after) ==
    IF copy = "deep" THEN before
    ELSE [p \in {q \in DOMAIN before : Len(q) <= 1}
                \cup {q \in DOMAIN after : Len(q) >= 2 /\ <<q[1]>> \in DOMAIN before} |->
             IF Len(p) <= 1 THEN before[p] ELSE after[p]]

-----------------------------------------------------------------------------
(* Templates and extraction results the fill operations are run on *)

Blank == PyStr(<<>>)

NoItems == PyList(<<>>)

\* the job template with every field blank, one interview stage and one question
BlankTemplate ==
    PyDict([jobProfile |-> PyDict([
        JobId |-> Blank,
        coreDetails |-> PyDict([
            title |-> Blank, jobSummary |-> Blank,
            employmentType |-> PyDict([agreement |-> Blank, schedule |-> Blank, term |-> Blank]),
            jobLocation |-> PyDict([type |-> Blank, applicantLocationRequirement |-> Blank]),
            customTags |-> NoItems, extraNotes |-> Blank]),
        responsibilities |-> PyDict([
            dayToDayDuties |-> NoItems, keyObjectives |-> NoItems,
            customTags |-> NoItems, extraNotes |-> Blank]),
        qualifications |-> PyDict([
            skills |-> PyDict([technical |-> NoItems, soft |-> NoItems]),
            experience |-> PyDict([requiredYears |-> PyInt(0), description |-> Blank]),
            education |-> PyDict([requiredCredential |-> Blank,
                                  acceptsExperienceInLieu |-> PyBool(FALSE)]),
            customTags |-> NoItems, extraNotes |-> Blank]),
        companyContext |-> PyDict([
            culture |-> Blank, growthOpportunities |-> Blank,
            customTags |-> NoItems, extraNotes |-> Blank]),
        compensation |-> PyDict([
            salary |-> PyDict([min |-> PyInt(0), max |-> PyInt(0), currency |-> Blank]),
            benefits |-> NoItems, customTags |-> NoItems, extraNotes |-> Blank]),
        interviewGuidance |-> PyDict([
            competencyProfile |-> NoItems, assessmentPlan |-> NoItems,
            interviewFlow |-> PyList(<<PyDict([
                stage |-> Blank, durationMinutes |-> PyInt(0), evaluators |-> NoItems,
                questions |-> PyList(<<PyDict([questionText |-> Blank,
                                               expectedSkills |-> NoItems])>>)])>>),
            customTags |-> NoItems, extraNotes |-> Blank]),
        meta |-> PyDict([
            lastUpdated |-> Blank, source |-> Blank, schemaVersion |-> Blank,
            customFields |-> PyDict([hardwareRequirement |-> Blank, timezoneOverlap |-> Blank,
                                     clearance |-> Blank])])])])

\* tree without what is at path
Without(tree, path) == [q \in {x \in DOMAIN tree : ~IsPrefix(path, x)} |-> tree[q]]

\* tree with value at path under jobProfile
With(tree, path, value) == Graft(tree, <<"jobProfile">> \o path, value)

SomeText == <<"x">>

\* the templates given to the fill operations: the blank one, and the blank
\* one with a field absent, prefilled, null or of another shape
Templates ==
    << BlankTemplate,
       Without(BlankTemplate, <<"jobProfile", "meta", "customFields", "clearance">>),
       Without(BlankTemplate, <<"jobProfile", "coreDetails", "customTags">>),
       Without(BlankTemplate, <<"jobProfile", "compensation", "salary", "currency">>),
       Without(BlankTemplate, <<"jobProfile", "qualifications", "skills">>),
       Without(BlankTemplate, <<"jobProfile", "interviewGuidance", "interviewFlow">>),
       Without(BlankTemplate, <<"jobProfile", "meta">>),
       Without(BlankTemplate, <<"jobProfile">>),
       With(BlankTemplate, <<"coreDetails", "title">>, PyStr(SomeText)),
       With(BlankTemplate, <<"coreDetails", "extraNotes">>, PyStr(SomeText)),
       With(BlankTemplate, <<"compensation", "salary", "currency">>, PyNull),
       With(BlankTemplate, <<"compensation", "salary", "min">>, PyInt(5)),
       With(BlankTemplate, <<"compensation", "benefits">>, PyList(<<PyStr(SomeText)>>)),
       With(BlankTemplate, <<"coreDetails", "customTags">>, PyDict([note |-> Blank])),
       With(BlankTemplate, <<"qualifications", "skills">>, PyStr(SomeText)),
       With(BlankTemplate, <<"interviewGuidance", "interviewFlow">>, PyDict([stage |-> Blank])),
       With(BlankTemplate, <<"interviewGuidance", "interviewFlow">>, NoItems),
       With(BlankTemplate, <<"qualifications", "education", "acceptsExperienceInLieu">>,
            PyBool(TRUE)) >>

\* item1|item2|... with n items
RECURSIVE ItemText(_)
ItemText(n) ==
    IF n <= 1 THEN <<"x">> ELSE ItemText(n - 1) \o <<"|", IF n % 2 = 0 THEN "y" ELSE "x">>

\* what a field is determined as
Determinable ==
    {<<"5">>, <<"0">>, TextOf.true, USD, <<"1", "2", "0", "0">>} \cup {ItemText(n) : n \in 1..MaxItems}

\* extract_field_specific_info returned OPEN for every field
AllOpen == [i \in 1..Len(field_mappings) |-> OPEN]

\* the values extract_field_specific_info returns for the fields: none
\* determined, one determined, or all determined alike
RawValueMaps ==
    {AllOpen}
    \cup {[AllOpen EXCEPT ![i] = r] : i \in 2..Len(field_mappings), r \in Determinable}
    \cup {[i \in 1..Len(field_mappings) |-> r] : r \in Determinable}

NoneExtracted == [k \in ExtractedKeys |-> Absent]

\* what parse_llama_response hands to fill_json_template: no key, every key
\* with OPEN, one key, or every key with the same text
ExtractedMaps ==
    {NoneExtracted}
    \cup {[NoneExtracted EXCEPT ![k] = Present(r)] : k \in ExtractedKeys, r \in Determinable \cup {OPEN}}
    \cup {[k \in ExtractedKeys |-> Present(r)] : r \in Determinable \cup {OPEN}}

TemplateId == <<"t", "1">>

\* f"job-{datetime.now().strftime('%Y%m%d%H%M%S')}"
GeneratedJobId == <<"j", "o", "b", "-", "2", "0", "2", "5">>

\* no process_job_description call was made
NoRun ==
    [pipeline |-> "none", outcome |-> "none", llama |-> "none", response |-> <<>>,
     steps |-> <<>>, column |-> "null", file |-> FALSE]

FillIdle ==
    /\ given = PyDict(<<>>)
    /\ template = PyDict(<<>>)
    /\ filled = PyDict(<<>>)
    /\ fill_result = "none"
    /\ version = "none"
    /\ shares = FALSE
    /\ raw_values = AllOpen
    /\ extracted_data = NoneExtracted
    /\ field_calls = <<>>
    /\ job_run = NoRun

-----------------------------------------------------------------------------
(* Evaluation module: persistence of a report and evaluation of a session *)

SessionIds == {"s1", "s2"}

\* what the process environment holds when the evaluator is constructed:
\* whether a store URL and a store key are set, and what create_client does
\* with them when both are
Environments ==
    {e \in [url : BOOLEAN, key : BOOLEAN, create_client : {"ok", "exception"}] :
        e.create_client = "exception" => (e.url /\ e.key)}

\* _initialize_supabase(): every failure is logged and answered with None, so
\* the constructor returns in every environment
initialize_supabase(e) ==
    [outcome |-> "returned",
     client  |-> e.url /\ e.key /\ e.create_client = "ok"]

\* What the store holds for a session id, named by the first step of
\* evaluate_interview_session it stops: no row; a row without
\* session_information; without template_id; whose template has no job
\* description; whose session_information yields no exchange; a complete row.
RowProfiles == {"absent", "no_info", "no_template", "no_job", "no_conv", "good"}

\* replies of the store to one select: rows, no rows, or an exception
SelectReplies == {"rows", "no_rows", "exception"}

\* replies of the store to the update: whether it returned the row, and
\* whether the column was in fact written
UpdateReplies == {"rows_applied", "rows_noop", "no_rows_applied", "no_rows_noop", "exception"}

Applied(upd) == upd \in {"rows_applied", "no_rows_applied"}

NoSave == [called |-> FALSE, chk |-> "none", upd |-> "none", ver |-> "none",
           column |-> "null", ret |-> FALSE, calls |-> <<>>]

\* save_evaluation_report that trusts the update's reply and skips the read-back
save_evaluation_report_NoReadBack(ok, column, chk, upd, ver) ==
    IF ~ok THEN [NoSave EXCEPT !.called = TRUE, !.column = column]
    ELSE IF chk # "rows"
    THEN [NoSave EXCEPT !.called = TRUE, !.chk = chk, !.column = column,
                        !.calls = <<"select_check">>]
    ELSE IF upd \notin {"rows_applied", "rows_noop"}
    THEN [NoSave EXCEPT !.called = TRUE, !.chk = chk, !.upd = upd,
                        !.column = IF Applied(upd) THEN "saved" ELSE column,
                        !.calls = <<"select_check", "update">>]
    ELSE [called |-> TRUE, chk |-> chk, upd |-> upd, ver |-> "none",
          column |-> IF Applied(upd) THEN "saved" ELSE column,
          ret |-> TRUE,
          calls |-> <<"select_check", "update">>]

\* save_evaluation_report(session_id, evaluation_report) for a truthy report:
\* ok is whether the client exists, column the Interview_report value before
\* the call, chk/upd/ver the store's replies to the existence check, the
\* update and the read-back. Gives the value returned, the calls made and the
\* column afterwards.
save_evaluation_report(ok, column, chk, upd, ver) ==
    IF ~ok THEN [NoSave EXCEPT !.called = TRUE, !.column = column]
    ELSE IF chk # "rows"
    THEN [NoSave EXCEPT !.called = TRUE, !.chk = chk, !.column = column,
                        !.calls = <<"select_check">>]
    ELSE IF upd \notin {"rows_applied", "rows_noop"}
    THEN [NoSave EXCEPT !.called = TRUE, !.chk = chk, !.upd = upd,
                        !.column = IF Applied(upd) THEN "saved" ELSE column,
                        !.calls = <<"select_check", "update">>]
    ELSE LET after == IF Applied(upd) THEN "saved" ELSE column
         IN  [called |-> TRUE, chk |-> chk, upd |-> upd, ver |-> ver,
              column |-> after,
              ret |-> (ver = "rows" /\ after = "saved"),
              calls |-> <<"select_check", "update", "select_verify">>]

\* completion replies the evaluation of a session may meet
EvalHttp ==
    { Http("timeout", 0, "none", <<>>),
      Http("ok", 500, "dict", <<>>),
      Http("ok", 200, "dict", <<"x">>),
      Http("ok", 200, "dict", SmallObject),
      Http("ok", 200, "dict", JsonFence \o <<"[", "1", "]">> \o Fence) }

\* what the environment does during one evaluate_interview_session call
EvalFaults ==
    [fetch : {"ok", "exception"}, job : {"ok", "exception"}, http : EvalHttp,
     chk : SelectReplies, upd : UpdateReplies, ver : SelectReplies]

\* the replies the call never gets to see are fixed at one value
ReachesFaults(row, f) ==
    LET stops1 == f.fetch = "exception" \/ row \in {"absent", "no_info", "no_template"}
        stops2 == stops1 \/ f.job = "exception" \/ row \in {"no_job", "no_conv"}
        stops3 == stops2 \/ ~call_ollama_api(f.http).truthy
        stops4 == stops3 \/ f.chk # "rows"
        stops5 == stops4 \/ f.upd \notin {"rows_applied", "rows_noop"}
    IN  /\ stops1 => f.job = "ok"
        /\ stops2 => f.http = Http("timeout", 0, "none", <<>>)
        /\ stops3 => f.chk = "rows"
        /\ stops4 => f.upd = "rows_applied"
        /\ stops5 => f.ver = "rows"

\* batch_evaluate_sessions that counts the evaluated sessions only
BatchResults_CountsSuccesses(outcome, session_ids, successful_evaluations) ==
    [outcome |-> outcome,
     total_processed |-> Len(successful_evaluations),
     success_rate |-> IF outcome = "returned"
                      THEN [num |-> Len(successful_evaluations) * 100, den |-> Len(session_ids)]
                      ELSE [num |-> 0, den |-> 1]]

\* the dictionary batch_evaluate_sessions builds: success_rate is
\* len(successful_evaluations) / len(session_ids) * 100, kept as a fraction;
\* a call that raised returns nothing
BatchResults(outcome, session_ids, successful_evaluations) ==
    [outcome |-> outcome,
     total_processed |-> Len(session_ids),
     success_rate |-> IF outcome = "returned"
                      THEN [num |-> Len(successful_evaluations) * 100, den |-> Len(session_ids)]
                      ELSE [num |-> 0, den |-> 1]]

NoEval == [sid |-> "none", ret |-> Pending, calls |-> <<>>, save |-> NoSave]

Failure(sid, calls) == [sid |-> sid, ret |-> Returned(PyNone), calls |-> calls, save |-> NoSave]

\* evaluate_interview_session that saves whatever call_ollama_api returned
Evaluated_NoReportCheck(sid, evaluation_report, saved) ==
    [sid |-> sid, ret |-> evaluation_report,
     calls |-> <<"select_session", "select_job", "post">> \o saved.calls,
     save |-> saved]

\* steps 6 and 7 of evaluate_interview_session: evaluation_report is what
\* call_ollama_api returned, saved what save_evaluation_report does if called
Evaluated(sid, evaluation_report, saved) ==
    IF ~evaluation_report.truthy
    THEN Failure(sid, <<"select_session", "select_job", "post">>)
    ELSE [sid |-> sid, ret |-> evaluation_report,
          calls |-> <<"select_session", "select_job", "post">> \o saved.calls,
          save |-> saved]

\* evaluate_interview_session(session_id): the value returned, the external
\* calls made in order, and the save_evaluation_report call if one was made
evaluate_interview_session(sid, ok, row, column, f) ==
    IF ~ok THEN Failure(sid, <<>>)
    ELSE IF f.fetch = "exception" \/ row = "absent" THEN Failure(sid, <<"select_session">>)
    ELSE IF row \in {"no_info", "no_template"} THEN Failure(sid, <<"select_session">>)
    ELSE IF f.job = "exception" \/ row = "no_job"
    THEN Failure(sid, <<"select_session", "select_job">>)
    ELSE IF row = "no_conv" THEN Failure(sid, <<"select_session", "select_job">>)
    ELSE Evaluated(sid, call_ollama_api(f.http),
                   save_evaluation_report(ok, column, f.chk, f.upd, f.ver))

\* none of the input-to-output functions has been called
PureIdle ==
    /\ fn_name = "none"
    /\ fn_arg = <<>>
    /\ fn_ret = <<>>

ClientIdle ==
    /\ http = Http("timeout", 0, "none", <<>>)
    /\ cpc = "idle"
    /\ requests_made = 0
    /\ raw_response = <<>>
    /\ json_content = NotFound
    /\ api_result = Pending
    /\ llama_result = [outcome |-> "pending", text |-> <<>>]

EvalInit ==
    /\ ClientIdle
    /\ FillIdle
    /\ PureIdle
    /\ env \in Environments
    /\ client_ok = initialize_supabase(env).client
    /\ db \in [SessionIds -> RowProfiles]
    /\ reports = [sid \in SessionIds |-> "null"]
    /\ mode \in {"batch", "save"}
    /\ batch \in UNION { [1..n -> SessionIds] : n \in 0..MaxBatch }
    /\ mode = "save" => Len(batch) = 1
    /\ bidx = 0
    /\ successful = <<>>
    /\ failed = <<>>
    /\ last_eval = NoEval
    /\ last_save = NoSave
    /\ last_http = Http("timeout", 0, "none", <<>>)
    /\ results = BatchResults("running", <<>>, <<>>)

\* one iteration of the loop of batch_evaluate_sessions
BatchEvaluateStep ==
    /\ mode = "batch"
    /\ bidx < Len(batch)
    /\ \E sid \in {batch[bidx + 1]} : \E f \in EvalFaults :
          /\ ReachesFaults(db[sid], f)
          /\ last_http' = f.http
          /\ \E e \in {evaluate_interview_session(sid, client_ok, db[sid], reports[sid], f)} :
              /\ last_eval' = e
              /\ last_save' = e.save
              /\ reports' = IF e.save.called THEN [reports EXCEPT ![sid] = e.save.column]
                            ELSE reports
              /\ IF e.ret.truthy
                 THEN successful' = Append(successful, sid) /\ failed' = failed
                 ELSE failed' = Append(failed, sid) /\ successful' = successful
    /\ bidx' = bidx + 1
    /\ UNCHANGED <<env, client_ok, db, mode, batch, results, clientVars, fillVars, pureVars>>

\* the end of batch_evaluate_sessions, after the loop: the success rate is
\* computed by a division by len(session_ids) outside every try block
BatchReturn ==
    /\ mode = "batch"
    /\ bidx = Len(batch)
    /\ results.outcome = "running"
    /\ results' = BatchResults(IF Len(batch) = 0 THEN "raised" ELSE "returned", batch, successful)
    /\ UNCHANGED <<env, client_ok, db, reports, mode, batch, bidx, successful, failed,
                   last_eval, last_save, last_http, clientVars, fillVars, pureVars>>

\* a direct call of save_evaluation_report(session_id, report)
SaveEvaluationReport ==
    /\ mode = "save"
    /\ bidx = 0
    /\ \E sid \in {batch[1]}, chk \in SelectReplies, upd \in UpdateReplies, ver \in SelectReplies :
          /\ db[sid] = "absent" => chk # "rows"
          /\ \E r \in {save_evaluation_report(client_ok, reports[sid], chk, upd, ver)} :
              /\ last_save' = r
              /\ reports' = [reports EXCEPT ![sid] = r.column]
    /\ bidx' = 1
    /\ UNCHANGED <<env, client_ok, db, mode, batch, successful, failed, last_eval, last_http,
                   results, clientVars, fillVars, pureVars>>

EvalNext == BatchEvaluateStep \/ BatchReturn \/ SaveEvaluationReport

SpecEval == EvalInit /\ [][EvalNext]_vars

-----------------------------------------------------------------------------
(* Specification of one completion call *)

EvalIdle ==
    /\ env = [url |-> TRUE, key |-> TRUE, create_client |-> "ok"]
    /\ client_ok = TRUE
    /\ db = [sid \in SessionIds |-> "absent"]
    /\ reports = [sid \in SessionIds |-> "null"]
    /\ mode = "none"
    /\ batch = <<>>
    /\ bidx = 0
    /\ successful = <<>>
    /\ failed = <<>>
    /\ last_eval = NoEval
    /\ last_save = NoSave
    /\ last_http = Http("timeout", 0, "none", <<>>)
    /\ results = BatchResults("running", <<>>, <<>>)

ClientInit ==
    /\ EvalIdle
    /\ FillIdle
    /\ PureIdle
    /\ http \in HttpBehaviours
    /\ cpc = "idle"
    /\ requests_made = 0
    /\ raw_response = <<>>
    /\ json_content = NotFound
    /\ api_result = Pending
    /\ llama_result = [outcome |-> "pending", text |-> <<>>]

\* call_ollama_api got as far as reading the reply text (lines 655-656)
ReadsReply(h) == h.net = "ok" /\ h.status = 200 /\ h.body \in {"dict", "dict_no_response"}

\* one invocation of InterviewEvaluationModule.call_ollama_api
CallOllamaApi ==
    /\ cpc = "idle"
    /\ cpc' = "ollama"
    /\ requests_made' = requests_made + 1
    /\ raw_response' = IF ReadsReply(http) THEN ReplyText(http) ELSE <<>>
    /\ json_content' = IF ReadsReply(http) THEN ExtractJsonContent(ReplyText(http)) ELSE NotFound
    /\ api_result' = call_ollama_api(http)
    /\ UNCHANGED <<http, llama_result, evalVars, fillVars, pureVars>>

\* one invocation of IntelligentJobDescriptionParser.call_llama3
CallLlama3 ==
    /\ cpc = "idle"
    /\ cpc' = "llama3"
    /\ requests_made' = requests_made + 1
    /\ llama_result' = call_llama3(http)
    /\ UNCHANGED <<http, raw_response, json_content, api_result, evalVars, fillVars, pureVars>>

ClientNext == CallOllamaApi \/ CallLlama3

SpecClient == ClientInit /\ [][ClientNext]_vars

-----------------------------------------------------------------------------
(* Specification of one fill call *)

FillInit ==
    /\ ClientIdle
    /\ EvalIdle
    /\ PureIdle
    /\ \E i \in 1..Len(Templates) : given = Templates[i]
    /\ template = given
    /\ filled = PyDict(<<>>)
    /\ fill_result = "none"
    /\ version = "none"
    /\ shares = FALSE
    /\ raw_values = AllOpen
    /\ extracted_data = NoneExtracted
    /\ field_calls = <<>>
    /\ job_run = NoRun

\* the state a fill call leaves: r is what the function computed on the copy
AfterFill(v, copy, r) ==
    /\ version' = v
    /\ fill_result' = IF r.ok THEN "returned" ELSE "raised"
    /\ filled' = IF r.ok THEN r.tree ELSE PyDict(<<>>)
    /\ template' = CallerView(copy, given, r.tree)
    /\ shares' = (r.ok /\ copy = "shallow")
    /\ UNCHANGED <<given, clientVars, evalVars, pureVars>>

\* JobDescriptionParser.fill_json_template(template, extracted_data)
FillJsonTemplateOllama ==
    /\ version = "none"
    /\ \E d \in ExtractedMaps :
          /\ extracted_data' = d
          /\ \E r \in {fill_json_template(given, d, GeneratedJobId)} :
                AfterFill("ollama_v1.0", "shallow", r)
    /\ UNCHANGED <<raw_values, field_calls, job_run>>

\* SupabaseJobDescriptionParser.fill_json_template(template, extracted_data, template_id)
FillJsonTemplateSupabase ==
    /\ version = "none"
    /\ \E d \in ExtractedMaps :
          /\ extracted_data' = d
          /\ \E r \in {fill_json_template(given, d, TemplateId)} :
                AfterFill("supabase_v1.0", "shallow", r)
    /\ UNCHANGED <<raw_values, field_calls, job_run>>

\* IntelligentJobDescriptionParser.intelligently_fill_template(template, job_description, template_id)
\* Every completion returns (raised_at = 0), or the one asked for entry
\* raised_at raises out of call_llama3, which the loop does not handle.
IntelligentlyFillTemplate ==
    /\ version = "none"
    /\ \E rv \in RawValueMaps :
          \E raised_at \in IF rv = AllOpen THEN CompletionRaisedAt ELSE {0} :
              /\ raw_values' = rv
              /\ field_calls' = ExtractionCalls(
                     SetItem(given, <<"jobProfile", "JobId">>, PyStr(TemplateId)), rv, raised_at)
              /\ \E r \in {intelligently_fill_template(given, rv, TemplateId)} :
                    AfterFill("supabase_v1.2", "deep",
                              IF raised_at \in Range(field_calls') THEN [ok |-> FALSE, tree |-> given] ELSE r)
    /\ UNCHANGED <<extracted_data, job_run>>

FillNext == FillJsonTemplateOllama \/ FillJsonTemplateSupabase \/ IntelligentlyFillTemplate

SpecFill == FillInit /\ [][FillNext]_vars

-----------------------------------------------------------------------------
(* extract_conversation_data of the evaluation module *)

\* a JSON value: t is "dict", "list", "str", "int" or "none"; d maps the keys
\* of a dict to values, items are the members of a list, v is the text of a
\* string or the decimal text of a number ("absent" marks a key left out)
Val(t, d, items, v) == [t |-> t, d |-> d, items |-> items, v |-> v]

\* the key lists of extract_conversation_data, in the order they are tried
AliasKeys ==
    [role |-> <<"role", "speaker", "type">>,
     content |-> <<"message", "content", "text", "response">>,
     conversation |-> <<"conversation", "chat_history", "messages", "qa_pairs", "dialogue",
                        "conversation_history">>]

\* for key in keys: if key in x: ...; break -- the position of the first key
\* of keys that the dict x has, 0 when it has none
FirstPresent(x, keys) ==
    IF \E i \in 1..Len(keys) : keys[i] \in DOMAIN x.d
    THEN MinOf({i \in 1..Len(keys) : keys[i] \in DOMAIN x.d})
    ELSE 0

\* the standardizing of an exchange that gives "user" to one without a role key
StandardizedExchange_DefaultRole(exchange, r, c) ==
    IF exchange.t = "dict" /\ c > 0
    THEN <<[role |-> IF r > 0 THEN exchange.d[AliasKeys.role[r]] ELSE Val("str", <<>>, <<>>, "user"),
            content |-> exchange.d[AliasKeys.content[c]]]>>
    ELSE <<>>

\* the standardized exchange of a dict that has a role key and a message key
StandardizedExchange(exchange, r, c) ==
    IF exchange.t = "dict" /\ r > 0 /\ c > 0
    THEN <<[role |-> exchange.d[AliasKeys.role[r]], content |-> exchange.d[AliasKeys.content[c]]]>>
    ELSE <<>>

\* the loop over the exchanges of a conversation list
RECURSIVE Standardized(_)
Standardized(exchanges) ==
    IF exchanges = <<>> THEN <<>>
    ELSE StandardizedExchange(Head(exchanges),
                              FirstPresent(Head(exchanges), AliasKeys.role),
                              FirstPresent(Head(exchanges), AliasKeys.content))
             \o Standardized(Tail(exchanges))

\* the loop over zip(questions, answers); str() of a string is the string, of
\* a number its decimal text
RECURSIVE ZippedPairs(_, _)
ZippedPairs(questions, answers) ==
    IF questions = <<>> \/ answers = <<>> THEN <<>>
    ELSE << [role |-> Val("str", <<>>, <<>>, "assistant"),
             content |-> Val("str", <<>>, <<>>, Head(questions).v)],
            [role |-> Val("str", <<>>, <<>>, "user"),
             content |-> Val("str", <<>>, <<>>, Head(answers).v)] >>
             \o ZippedPairs(Tail(questions), Tail(answers))

\* the dict branch with questions and answers zipped the other way round
ConversationOfDict_SwappedPairs(si, k) ==
    IF k > 0 /\ si.d[AliasKeys.conversation[k]].t = "list"
             /\ Standardized(si.d[AliasKeys.conversation[k]].items) # <<>>
    THEN Standardized(si.d[AliasKeys.conversation[k]].items)
    ELSE IF /\ "questions" \in DOMAIN si.d /\ "answers" \in DOMAIN si.d
            /\ si.d.questions.t = "list" /\ si.d.answers.t = "list"
    THEN ZippedPairs(si.d.answers.items, si.d.questions.items)
    ELSE <<>>

\* the dict branch of extract_conversation_data: k is the position of the
\* first conversation key the dict has
ConversationOfDict(si, k) ==
    IF k > 0 /\ si.d[AliasKeys.conversation[k]].t = "list"
             /\ Standardized(si.d[AliasKeys.conversation[k]].items) # <<>>
    THEN Standardized(si.d[AliasKeys.conversation[k]].items)
    ELSE IF /\ "questions" \in DOMAIN si.d /\ "answers" \in DOMAIN si.d
            /\ si.d.questions.t = "list" /\ si.d.answers.t = "list"
    THEN ZippedPairs(si.d.questions.items, si.d.answers.items)
    ELSE <<>>

\* extract_conversation_data(session_information): the list returned. A
\* session_data that is not a dict either has no conversation_history or makes
\* the lookup raise, and the handler returns [] as well.
extract_conversation_data(si) ==
    IF si.t = "list" /\ si.items # <<>>
    THEN IF /\ si.items[1].t = "dict"
            /\ "session_data" \in DOMAIN si.items[1].d
            /\ si.items[1].d.session_data.t = "dict"
            /\ "conversation_history" \in DOMAIN si.items[1].d.session_data.d
            /\ si.items[1].d.session_data.d.conversation_history.t = "list"
         THEN Standardized(si.items[1].d.session_data.d.conversation_history.items)
         ELSE <<>>
    ELSE IF si.t = "dict" THEN ConversationOfDict(si, FirstPresent(si, AliasKeys.conversation))
    ELSE <<>>

\* the session_information values extract_conversation_data is called with:
\* a list wrapping a session object, whole or with a part missing or of
\* another type; a dict with none, one or two conversation keys and with or
\* without questions and answers; and a value that is neither
SessionInformations ==
    LET JStr(v)     == Val("str", <<>>, <<>>, v)
        JInt(v)     == Val("int", <<>>, <<>>, v)
        JList(xs)   == Val("list", <<>>, xs, "")
        JDict(d)    == Val("dict", d, <<>>, "")
        JNone       == Val("none", <<>>, <<>>, "")
        Missing     == Val("absent", <<>>, <<>>, "")
        DictOf(c)  == JDict([k \in {x \in DOMAIN c : c[x].t # "absent"} |-> c[k]])
        ExchangeValues  == { JDict([role |-> JStr("user"), content |-> JStr("hi")]),
                        JDict([speaker |-> JStr("assistant"), message |-> JStr("yo")]),
                        JDict([role |-> JStr("user")]),
                        JDict([text |-> JStr("t")]),
                        JDict([type |-> JStr("b"), role |-> JStr("a"),
                              response |-> JStr("d"), content |-> JStr("c")]),
                        JStr("x") }
        Histories  == { JList(xs) : xs \in UNION { [1..n -> ExchangeValues] : n \in 0..MaxExchanges } }
        Questions  == { JList(xs) : xs \in UNION { [1..n -> {JStr("Q1"), JInt("7")}] : n \in 0..MaxExchanges } }
        Answers    == { JList(xs) : xs \in UNION { [1..n -> {JStr("A1")}] : n \in 0..MaxExchanges } }
        Wrapped(h) == JList(<<JDict([session_data |-> JDict([conversation_history |-> h])])>>)
    IN  { Wrapped(h) : h \in Histories \cup {JStr("x")} }
        \cup { JList(<<>>), JList(<<JStr("x")>>), JList(<<JDict(<<>>)>>),
               JList(<<JDict([session_data |-> JNone])>>),
               JList(<<JDict([session_data |-> JDict(<<>>)])>>),
               JNone, JStr("x") }
        \cup { DictOf(c) : c \in [conversation : Histories \cup {Missing, JStr("x")},
                                   messages : {Missing, JList(<<JDict([role |-> JStr("user"),
                                                                    content |-> JStr("hi")])>>)},
                                   questions : Questions \cup {Missing, JStr("x")},
                                   answers : Answers \cup {Missing}] }

-----------------------------------------------------------------------------
(* parse_llama_response of the v1.0 parsers *)

\* longest reply given to parse_llama_response, counted in chunks
MaxFieldChunks == 5

\* re.sub(r'^(FIELD_NAME|Field|Key)\s*[-:]?\s*', '', field_name, flags=re.IGNORECASE):
\* the alternatives are tried in order at the start of the name, in any letter
\* case, and whatever follows the match is kept
CleanFieldName(field_name) ==
    LET low == Lower(field_name)
        p == IF StartsWithAt(low, <<"f", "i", "e", "l", "d", "_", "n", "a", "m", "e">>, 0) THEN 10
             ELSE IF StartsWithAt(low, <<"f", "i", "e", "l", "d">>, 0) THEN 5
             ELSE IF StartsWithAt(low, <<"k", "e", "y">>, 0) THEN 3
             ELSE -1
        a == SkipWs(field_name, p)
        b == IF a < Len(field_name) /\ field_name[a + 1] \in {"-", ":"} THEN a + 1 ELSE a
    IN  IF p < 0 THEN field_name
        ELSE Slice(field_name, SkipWs(field_name, b), Len(field_name))

\* the body of the loop over the lines: the dict after the stripped line
WithLine_KeepName(extracted, line, colon) ==
    IF colon < 0 THEN extracted
    ELSE LET field_name == Strip(Slice(line, 0, colon))
             value == Strip(Slice(line, colon + 1, Len(line)))
         IN  [n \in DOMAIN extracted \cup {field_name} |->
                 IF n # field_name THEN extracted[n]
                 ELSE IF value # <<>> /\ Lower(value) # Lower(OPEN) THEN value
                 ELSE OPEN]

WithLine(extracted, line, colon) ==
    IF colon < 0 THEN extracted
    ELSE LET field_name == CleanFieldName(Strip(Slice(line, 0, colon)))
             value == Strip(Slice(line, colon + 1, Len(line)))
         IN  [n \in DOMAIN extracted \cup {field_name} |->
                 IF n # field_name THEN extracted[n]
                 ELSE IF value # <<>> /\ Lower(value) # Lower(OPEN) THEN value
                 ELSE OPEN]

\* for line in lines: line = line.strip(); if ':' in line: ...
RECURSIVE ParsedFrom(_, _)
ParsedFrom(lines, extracted) ==
    IF lines = <<>> THEN extracted
    ELSE ParsedFrom(Tail(lines),
                    WithLine(extracted, Strip(Head(lines)), Find(Strip(Head(lines)), <<":">>, 0)))

\* parse_llama_response(llama_response): the dict returned, a map from the
\* field names to their values
parse_llama_response(llama_response) ==
    ParsedFrom(Split(Strip(llama_response), "\n"), [n \in {} |-> <<>>])

-----------------------------------------------------------------------------
(* _extract_salary_range of the rule-based parsers (V1.1 and V1.2) *)

\* ,\d{3} repeated as often as it matches from index e on: the index after
RECURSIVE ThousandsEnd(_, _)
ThousandsEnd(s, e) ==
    IF /\ e + 4 <= Len(s) /\ s[e + 1] = ","
       /\ \A j \in (e + 2)..(e + 4) : s[j] \in Digits
    THEN ThousandsEnd(s, e + 4) ELSE e

\* \d{1,3}(?:,\d{3})* and, with cents, (?:\.\d{2})? matched at index i: the
\* index after the match, -1 when there is no digit at i
AmountEnd(s, i, cents) ==
    IF DigitsEnd(s, i) = i THEN -1
    ELSE LET e == ThousandsEnd(s, IF DigitsEnd(s, i) > i + 3 THEN i + 3 ELSE DigitsEnd(s, i))
         IN  IF cents /\ e + 3 <= Len(s) /\ s[e + 1] = "." /\ s[e + 2] \in Digits /\ s[e + 3] \in Digits
             THEN e + 3 ELSE e

\* (?:-|to) matched at index i, in any letter case: the index after, or -1
RangeWordEnd(s, i) ==
    IF StartsWithAt(s, <<"-">>, i) THEN i + 1
    ELSE IF StartsWithAt(Lower(s), <<"t", "o">>, i) THEN i + 2
    ELSE -1

\* k? matched at index i, in any letter case
MarkerEnd(s, i) == IF i < Len(s) /\ s[i + 1] \in {"k", "K"} THEN i + 1 ELSE i

\* the match of salary_patterns[k] that starts at index i: where it ends and
\* where its two groups lie, ok FALSE when the pattern does not match there.
\* a1 is where the first amount ends, r where the range word ends, b0 where
\* the second amount starts and b1 where it ends.
SalaryMatchOf(k, s, i, a0, a1, r, b0, b1) ==
    IF a0 < 0 \/ a1 < 0 \/ r < 0 \/ b0 < 0 \/ b1 < 0 THEN [ok |-> FALSE]
    ELSE LET end == IF k = 1 THEN b1
                    ELSE IF k = 2 THEN MarkerEnd(s, SkipWs(s, b1))
                    ELSE LET t == SkipWs(s, b1)
                         IN  IF StartsWithAt(Lower(s), <<"p", "e", "r", " ", "y", "e", "a", "r">>, t) THEN t + 8
                             ELSE IF StartsWithAt(Lower(s), <<"a", "n", "n", "u", "a", "l", "l", "y">>, t) THEN t + 8
                             ELSE IF StartsWithAt(Lower(s), <<"/", "y", "e", "a", "r">>, t) THEN t + 5
                             ELSE -1
         IN  IF end < 0 THEN [ok |-> FALSE]
             ELSE [ok |-> TRUE, end |-> end, group0 |-> Slice(s, i, end),
                   group1 |-> Slice(s, a0, a1), group2 |-> Slice(s, b0, b1)]

SalaryMatchAt(k, s, i) ==
    LET a0 == IF k = 3 THEN i ELSE IF StartsWithAt(s, <<"$">>, i) THEN i + 1 ELSE -1
        a1 == IF a0 < 0 THEN -1 ELSE AmountEnd(s, a0, k = 1)
        r  == IF a1 < 0 THEN -1
              ELSE RangeWordEnd(s, SkipWs(s, IF k = 2 THEN MarkerEnd(s, SkipWs(s, a1)) ELSE a1))
        b0 == IF r < 0 THEN -1
              ELSE IF StartsWithAt(s, <<"$">>, SkipWs(s, r)) /\ k # 3 THEN SkipWs(s, r) + 1
              ELSE IF k = 2 \/ k = 3 THEN SkipWs(s, r)
              ELSE -1
        b1 == IF b0 < 0 THEN -1 ELSE AmountEnd(s, b0, k = 1)
    IN  SalaryMatchOf(k, s, i, a0, a1, r, b0, b1)

\* int(re.sub(r'[^\d]', '', group))
DigitsOnly(group) == ToInt(SelectSeq(group, LAMBDA c : c \in Digits))

\* the salary a match stands for: thousands when the match holds a k
SalaryOf(m) ==
    LET times == IF \E j \in 1..Len(m.group0) : m.group0[j] \in {"k", "K"} THEN 1000 ELSE 1
    IN  [min |-> DigitsOnly(m.group1) * times, max |-> DigitsOnly(m.group2) * times, currency |-> USD]

\* for pattern in salary_patterns: for match in re.finditer(pattern, text):
\* the first match, from index i of pattern k on, that stands for a valid
\* range; the default range when no match of any pattern does
RECURSIVE SalaryScan(_, _, _)
SalaryScan(k, text, i) ==
    IF k > 3 THEN [min |-> 80000, max |-> 120000, currency |-> USD]
    ELSE IF i >= Len(text) THEN SalaryScan(k + 1, text, 0)
    ELSE IF ~SalaryMatchAt(k, text, i).ok THEN SalaryScan(k, text, i + 1)
    ELSE IF /\ 20000 <= SalaryOf(SalaryMatchAt(k, text, i)).min
            /\ SalaryOf(SalaryMatchAt(k, text, i)).min <= 500000
            /\ SalaryOf(SalaryMatchAt(k, text, i)).min < SalaryOf(SalaryMatchAt(k, text, i)).max
    THEN SalaryOf(SalaryMatchAt(k, text, i))
    ELSE SalaryScan(k, text, SalaryMatchAt(k, text, i).end)

\* _extract_salary_range(text)
extract_salary_range(text) == SalaryScan(1, text, 0)

-----------------------------------------------------------------------------
(* The input-to-output functions, each called once on one of its inputs *)

PureInit ==
    /\ ClientIdle
    /\ EvalIdle
    /\ FillIdle
    /\ PureIdle

\* extract_conversation_data(session_information)
ExtractConversationData ==
    /\ fn_name = "none"
    /\ \E si \in SessionInformations :
          /\ fn_arg' = si
          /\ fn_ret' = extract_conversation_data(si)
    /\ fn_name' = "extract_conversation_data"
    /\ UNCHANGED <<clientVars, evalVars, fillVars>>

\* parse_llama_response(llama_response) on a reply made of at most
\* MaxFieldChunks chunks: a name, two echoed prefixes, a colon, a colon with a
\* value, a line break and the word Open
ParseLlamaResponse ==
    /\ fn_name = "none"
    /\ \E n \in 0..MaxFieldChunks :
          \E chunks \in [1..n -> {<<"T">>,
                                <<"K", "e", "y", " ", "-", " ">>,
                                <<"f", "i", "e", "l", "d">>,
                                <<":">>,
                                <<":", " ", "x">>,
                                <<"\n">>,
                                <<"O", "p", "e", "n">>}] :
              \E llama_response \in {Flatten(chunks)} :
                  /\ fn_arg' = llama_response
                  /\ fn_ret' = parse_llama_response(llama_response)
    /\ fn_name' = "parse_llama_response"
    /\ UNCHANGED <<clientVars, evalVars, fillVars>>

\* longest text given to _clean_json_response, counted in chunks
MaxJsonChunks == 4

\* _clean_json_response(json_content) on a text made of at most MaxJsonChunks
\* chunks: a key with its colon and a space, a colon, the three spellings of
\* N/A, a comma, a closing brace, a line break and a space
CleanJsonResponse ==
    /\ fn_name = "none"
    /\ \E n \in 0..MaxJsonChunks :
          \E chunks \in [1..n -> {<<"\"", "k", "\"", ":", " ">>,
                                <<":">>,
                                <<"\"", "N", "/", "A", "\"">>,
                                <<"'", "N", "/", "A", "'">>,
                                <<"N", "/", "A">>,
                                <<",">>,
                                <<"}">>,
                                <<"\n">>,
                                <<" ">>}] :
              \E json_text \in {Flatten(chunks)} :
                  /\ fn_arg' = json_text
                  /\ fn_ret' = clean_json_response(json_text)
    /\ fn_name' = "clean_json_response"
    /\ UNCHANGED <<clientVars, evalVars, fillVars>>

\* _extract_salary_range(text) on a range written with two of the amounts, in
\* one of the notations the patterns are written for, alone or after a range
\* that is no salary
ExtractSalaryRange ==
    /\ fn_name = "none"
    /\ \E a \in {<<"1", "9">>, <<"2", "0">>, <<"1", "2", "0">>, <<"5", "0", "0">>, <<"5", "0", "1">>}, b \in {<<"2", "1">>, <<"1", "6", "0">>, <<"9", "9", "9">>, <<"1", "0", "0", "0">>, <<"1", ",", "0", "0", "0">>} :
          \E range \in {<<"$">> \o a \o <<"k", " ", "-", " ", "$">> \o b \o <<"k">>,
                        <<"$">> \o a \o <<"K">> \o <<" ", "t", "o", " ">> \o b \o <<"k">>,
                        <<"$">> \o a \o <<",", "0", "0", "0">> \o <<" ", "-", " ", "$">> \o b \o <<",", "0", "0", "0">>,
                        a \o <<",", "0", "0", "0">> \o <<" ", "t", "o", " ">> \o b \o <<",", "0", "0", "0">> \o <<" ", "p", "e", "r", " ", "y", "e", "a", "r">>} :
              \E text \in {range, <<"$", "1", " ", "-", " ", "$", "2", ",", " ">> \o range} :
                  /\ fn_arg' = text
                  /\ fn_ret' = extract_salary_range(text)
    /\ fn_name' = "extract_salary_range"
    /\ UNCHANGED <<clientVars, evalVars, fillVars>>

\* parse_extracted_value(raw_value, field_path, default_value) for an entry of
\* field_mappings and a raw value: an amount of money, a list of items, a
\* word, OPEN or nothing
ParseExtractedValue ==
    /\ fn_name = "none"
    /\ \E i \in 2..Len(field_mappings) :
          \E raw_value \in {OPEN,
                            <<"1", "2", "0", ",", "0", "0", "0">>,
                            <<"$", "1", "2", "0", "0", "0", "0">>,
                            <<"1", "2", "0", "k">>,
                            <<"$", "8", "5", ",", "0", "0", "0", ".", "5", "0">>,
                            <<"8", "5">>,
                            <<>>,
                            <<"a", " ", "|", " ", "b">>,
                            <<" ", "a", " ", "|", " ", " ", "|", " ", "O", "P", "E", "N", " ", "|", " ", "b">>,
                            <<"x", "=", "y", " ", "|", " ", "'", "q", "'">>,
                            <<"a">>,
                            <<"|">>,
                            <<"t", "r", "u", "e">>} :
              /\ fn_arg' = [raw_value |-> raw_value, field_path |-> field_mappings[i].path]
              /\ fn_ret' = parse_extracted_value(raw_value, field_mappings[i].path,
                                                 field_mappings[i].default)
    /\ fn_name' = "parse_extracted_value"
    /\ UNCHANGED <<clientVars, evalVars, fillVars>>

\* the field names the extraction prompt asks for, each as the text of the
\* name at the start of its line of the reply
CanonicalNames ==
    [
      JOB_TITLE |->
          <<"J", "O", "B", "_", "T", "I", "T", "L", "E">>,
      JOB_SUMMARY |->
          <<"J", "O", "B", "_", "S", "U", "M", "M", "A", "R", "Y">>,
      EMPLOYMENT_TYPE |->
          <<"E", "M", "P", "L", "O", "Y", "M", "E", "N", "T", "_", "T", "Y", "P", "E">>,
      SCHEDULE |->
          <<"S", "C", "H", "E", "D", "U", "L", "E">>,
      TERM |->
          <<"T", "E", "R", "M">>,
      LOCATION_TYPE |->
          <<"L", "O", "C", "A", "T", "I", "O", "N", "_", "T", "Y", "P", "E">>,
      LOCATION_REQUIREMENT |->
          <<"L", "O", "C", "A", "T", "I", "O", "N", "_", "R", "E", "Q", "U", "I", "R", "E", "M", "E", "N", "T">>,
      KEY_OBJECTIVES |->
          <<"K", "E", "Y", "_", "O", "B", "J", "E", "C", "T", "I", "V", "E", "S">>,
      DAY_TO_DAY_DUTIES |->
          <<"D", "A", "Y", "_", "T", "O", "_", "D", "A", "Y", "_", "D", "U", "T", "I", "E", "S">>,
      TECHNICAL_SKILLS |->
          <<"T", "E", "C", "H", "N", "I", "C", "A", "L", "_", "S", "K", "I", "L", "L", "S">>,
      SOFT_SKILLS |->
          <<"S", "O", "F", "T", "_", "S", "K", "I", "L", "L", "S">>,
      REQUIRED_YEARS |->
          <<"R", "E", "Q", "U", "I", "R", "E", "D", "_", "Y", "E", "A", "R", "S">>,
      EXPERIENCE_DESCRIPTION |->
          <<"E", "X", "P", "E", "R", "I", "E", "N", "C", "E", "_", "D", "E", "S", "C", "R", "I", "P", "T", "I", "O", "N">>,
      EDUCATION_REQUIRED |->
          <<"E", "D", "U", "C", "A", "T", "I", "O", "N", "_", "R", "E", "Q", "U", "I", "R", "E", "D">>,
      ACCEPTS_EXPERIENCE_IN_LIEU |->
          <<"A", "C", "C", "E", "P", "T", "S", "_", "E", "X", "P", "E", "R", "I", "E", "N", "C", "E", "_", "I", "N", "_", "L", "I", "E", "U">>,
      COMPANY_CULTURE |->
          <<"C", "O", "M", "P", "A", "N", "Y", "_", "C", "U", "L", "T", "U", "R", "E">>,
      GROWTH_OPPORTUNITIES |->
          <<"G", "R", "O", "W", "T", "H", "_", "O", "P", "P", "O", "R", "T", "U", "N", "I", "T", "I", "E", "S">>,
      SALARY_MIN |->
          <<"S", "A", "L", "A", "R", "Y", "_", "M", "I", "N">>,
      SALARY_MAX |->
          <<"S", "A", "L", "A", "R", "Y", "_", "M", "A", "X">>,
      CURRENCY |->
          <<"C", "U", "R", "R", "E", "N", "C", "Y">>,
      BENEFITS |->
          <<"B", "E", "N", "E", "F", "I", "T", "S">>,
      COMPETENCY_PROFILE |->
          <<"C", "O", "M", "P", "E", "T", "E", "N", "C", "Y", "_", "P", "R", "O", "F", "I", "L", "E">>,
      ASSESSMENT_PLAN |->
          <<"A", "S", "S", "E", "S", "S", "M", "E", "N", "T", "_", "P", "L", "A", "N">>
    ]

\* parse_llama_response of a reply of one line "N: v", N a field name of the
\* prompt and v a value that is neither empty nor "open"
ParseFieldLine ==
    /\ fn_name = "none"
    /\ \E k \in DOMAIN CanonicalNames :
          \E v \in {<<"a">>, <<"4">>, <<"a", " ", "|", " ", "b">>, <<"x", ":", "y">>} :
              \E llama_response \in {CanonicalNames[k] \o <<":", " ">> \o v} :
                  /\ fn_arg' = llama_response
                  /\ fn_ret' = parse_llama_response(llama_response)
    /\ fn_name' = "parse_llama_response"
    /\ UNCHANGED <<clientVars, evalVars, fillVars>>

PureNext ==
    \/ ExtractConversationData
    \/ ParseExtractedValue
    \/ ParseLlamaResponse
    \/ CleanJsonResponse
    \/ ExtractSalaryRange
    \/ ParseFieldLine

SpecPure == PureInit /\ [][PureNext]_vars

-----------------------------------------------------------------------------
(* The v1.0 job pipelines: process_job_description(_from_db) *)

\* what fill_json_template's lookups find in the dict parse_llama_response
\* returned: the entries under the field names of the prompt
ExtractedFrom(parsed) ==
    [k \in ExtractedKeys |->
        IF CanonicalNames[k] \in DOMAIN parsed THEN Present(parsed[CanonicalNames[k]]) ELSE Absent]

\* the completion endpoint during a pipeline run: unreachable, answering 500,
\* answering an empty text, a body that is no object, or a reply of one line
JobHttp ==
    { Http(n, 0, "none", <<>>) : n \in {"timeout", "connection_error"} }
    \cup { Http("ok", 500, "dict", <<>>), Http("ok", 200, "dict", <<>>),
           Http("ok", 200, "json_not_dict", <<>>) }
    \cup { Http("ok", 200, "dict", CanonicalNames[k] \o <<":", " ">> \o SomeText) :
             k \in {"JOB_TITLE", "KEY_OBJECTIVES"} }

\* the store and the disk during a pipeline run: the connection test, the
\* select of the job row, the update of initial_json_schema (its reply is not
\* looked at) and the write of the output file
JobFaults ==
    [conn : {"ok", "fail"}, job : {"found", "none"},
     upd : {"rows_applied", "no_rows_noop", "exception"}, disk : {"ok", "error"}]

\* the run ended with an exception after the steps given
Stopped(pipeline, llama, steps, column) ==
    [pipeline |-> pipeline, outcome |-> "raised",
     llama |-> IF "post" \in Range(steps) THEN llama.outcome ELSE "none",
     response |-> IF "post" \in Range(steps) THEN llama.text ELSE <<>>,
     steps |-> steps, column |-> column, file |-> FALSE]

\* process_job_description_from_db(template_id): llama is what call_llama3
\* did, r what fill_json_template did with the template
process_job_description_from_db(s, llama, r) ==
    IF s.conn = "fail" THEN Stopped("supabase", llama, <<"connection_test">>, "null")
    ELSE IF s.job = "none"
    THEN Stopped("supabase", llama, <<"connection_test", "select_job">>, "null")
    ELSE IF llama.outcome = "raised"
    THEN Stopped("supabase", llama, <<"connection_test", "select_job", "post">>, "null")
    ELSE IF ~r.ok
    THEN Stopped("supabase", llama, <<"connection_test", "select_job", "post">>, "null")
    ELSE IF s.upd = "exception"
    THEN Stopped("supabase", llama, <<"connection_test", "select_job", "post", "update">>, "null")
    ELSE IF s.disk = "error"
    THEN Stopped("supabase", llama,
                 <<"connection_test", "select_job", "post", "update", "write_file">>,
                 IF Applied(s.upd) THEN "saved" ELSE "null")
    ELSE [pipeline |-> "supabase", outcome |-> "returned", llama |-> llama.outcome,
          response |-> llama.text,
          steps |-> <<"connection_test", "select_job", "post", "update", "write_file">>,
          column |-> IF Applied(s.upd) THEN "saved" ELSE "null",
          file |-> TRUE]

\* process_job_description(job_description, template_path, output_path) of
\* the file-only parser
process_job_description(s, llama, r) ==
    IF llama.outcome = "raised" THEN Stopped("ollama", llama, <<"post">>, "null")
    ELSE IF ~r.ok THEN Stopped("ollama", llama, <<"post">>, "null")
    ELSE IF s.disk = "error" THEN Stopped("ollama", llama, <<"post", "write_file">>, "null")
    ELSE [pipeline |-> "ollama", outcome |-> "returned", llama |-> llama.outcome,
          response |-> llama.text,
          steps |-> <<"post", "write_file">>, column |-> "null", file |-> TRUE]

\* process_all_pending_jobs selects the job: initial_json_schema is null
SelectedAsPending(run) == run.column = "null"

ProcessJobDescriptionFromDb ==
    /\ job_run.outcome = "none" /\ version = "none"
    /\ \E h \in JobHttp, s \in JobFaults :
          /\ (s.conn = "fail" \/ s.job = "none") => h = Http("timeout", 0, "none", <<>>)
          /\ s.conn = "fail" => s.job = "found"
          /\ \E llama \in {call_llama3(h)} :
             \E d \in {IF llama.text = <<>> THEN NoneExtracted
                       ELSE ExtractedFrom(parse_llama_response(llama.text))} :
             \E r \in {fill_json_template(given, d, TemplateId)} :
                /\ (s.conn = "fail" \/ s.job = "none" \/ llama.outcome = "raised" \/ ~r.ok)
                      => s.upd = "rows_applied"
                /\ (s.conn = "fail" \/ s.job = "none" \/ llama.outcome = "raised" \/ ~r.ok
                      \/ s.upd = "exception") => s.disk = "ok"
                /\ job_run' = process_job_description_from_db(s, llama, r)
                /\ IF s.conn = "ok" /\ s.job = "found" /\ llama.outcome = "returned"
                   THEN extracted_data' = d /\ AfterFill("supabase_v1.0", "shallow", r)
                   ELSE UNCHANGED <<given, template, filled, fill_result, version, shares,
                                    extracted_data, clientVars, evalVars, pureVars>>
    /\ UNCHANGED <<raw_values, field_calls>>

ProcessJobDescription ==
    /\ job_run.outcome = "none" /\ version = "none"
    /\ \E h \in JobHttp, s \in JobFaults :
          /\ s.conn = "ok" /\ s.job = "found" /\ s.upd = "rows_applied"
          /\ \E llama \in {call_llama3(h)} :
             \E d \in {IF llama.text = <<>> THEN NoneExtracted
                       ELSE ExtractedFrom(parse_llama_response(llama.text))} :
             \E r \in {fill_json_template(given, d, GeneratedJobId)} :
                /\ (llama.outcome = "raised" \/ ~r.ok) => s.disk = "ok"
                /\ job_run' = process_job_description(s, llama, r)
                /\ IF llama.outcome = "returned"
                   THEN extracted_data' = d /\ AfterFill("ollama_v1.0", "shallow", r)
                   ELSE UNCHANGED <<given, template, filled, fill_result, version, shares,
                                    extracted_data, clientVars, evalVars, pureVars>>
    /\ UNCHANGED <<raw_values, field_calls>>

JobNext == ProcessJobDescription \/ ProcessJobDescriptionFromDb

SpecJob == FillInit /\ [][JobNext]_vars

-----------------------------------------------------------------------------
(* Properties of the extraction and of the completion clients *)

\* i is the lowest index >= from at which sub occurs in s
IsFirstOcc(s, sub, from, i) ==
    /\ i >= from
    /\ StartsWithAt(s, sub, i)
    /\ \A j \in from..(i - 1) : ~StartsWithAt(s, sub, j)

\* opening braces minus closing braces among s[a..b] (0-based, inclusive)
Balance(s, a, b) ==
    Cardinality({p \in a..b : s[p + 1] = "{"}) - Cardinality({p \in a..b : s[p + 1] = "}"})

\* the span from the first opening brace of s to the first later position
\* where the braces balance, or "" when there is none
BalancedSpan(s) ==
    LET opens == {p \in 0..(Len(s) - 1) : s[p + 1] = "{"}
    IN  IF opens = {} THEN <<>>
        ELSE LET a    == MinOf(opens)
                 ends == {b \in a..(Len(s) - 1) : Balance(s, a, b) = 0}
             IN  IF ends = {} THEN <<>> ELSE SubSeq(s, a + 1, MinOf(ends) + 1)

AsContent(text) == IF text = <<>> THEN NotFound ELSE [found |-> TRUE, text |-> text]

OllamaDone == cpc = "ollama" /\ ReadsReply(http)

\* C4: with no json fence in the reply, a well-formed JSON object that starts
\* at the reply's first opening brace is returned by the extraction exactly,
\* whatever prose precedes it and whatever follows it.
C4_EmbeddedObjectExtracted ==
    (OllamaDone /\ ~Contains(raw_response, JsonFence)) =>
        \A a \in 0..(Len(raw_response) - 1) :
            LET v == ParseValue(raw_response, a)
            IN  (IsFirstOcc(raw_response, <<"{">>, 0, a) /\ v.ok /\ v.kind = "object")
                    => json_content = [found |-> TRUE, text |-> SubSeq(raw_response, a + 1, v.next)]

\* C5: fence first, then the balanced-brace scan. A reply holding a json fence
\* and a later closing fence yields the trimmed text strictly between the two,
\* even when the reply begins with a brace; a reply without a json fence yields
\* the balanced span that starts at its first opening brace.
C5_ExtractionPriority ==
    OllamaDone =>
        /\ \A a, b \in 0..Len(raw_response) :
              (IsFirstOcc(raw_response, JsonFence, 0, a) /\ IsFirstOcc(raw_response, Fence, a + 7, b))
                  => json_content = AsContent(Strip(SubSeq(raw_response, a + 8, b)))
        /\ ~Contains(raw_response, JsonFence)
              => json_content = AsContent(BalancedSpan(raw_response))

\* a reply that begins with a brace and also holds a complete json fence,
\* from which the fenced text was taken
C5_Witness ==
    /\ OllamaDone
    /\ StartsWithAt(raw_response, <<"{">>, 0)
    /\ \E a, b \in 0..Len(raw_response) :
          /\ IsFirstOcc(raw_response, JsonFence, 0, a)
          /\ IsFirstOcc(raw_response, Fence, a + 7, b)
    /\ json_content.found
    /\ json_content.text # BalancedSpan(raw_response)

\* C6 as stated: a reply with no balanced JSON object (no opening brace, or
\* braces that never balance) gives not-found and the call returns None.
C6_NoObjectGivesNone ==
    (OllamaDone /\ BalancedSpan(raw_response) = <<>>) =>
        /\ json_content = NotFound
        /\ api_result = Returned(PyNone)

\* C6 amended: a reply with no json fence and no balanced JSON object gives
\* not-found, and the call returns None without raising.
C6_NoFenceNoObjectGivesNone ==
    (OllamaDone /\ ~Contains(raw_response, JsonFence) /\ BalancedSpan(raw_response) = <<>>) =>
        /\ json_content = NotFound
        /\ api_result = Returned(PyNone)

\* a reply with an opening brace whose depth never returns to zero
C6_Witness ==
    /\ OllamaDone
    /\ ~Contains(raw_response, JsonFence)
    /\ Contains(raw_response, <<"{">>)
    /\ BalancedSpan(raw_response) = <<>>
    /\ api_result = Returned(PyNone)

\* C7: whatever call_ollama_api returns other than None is a parsed JSON object.
C7_ResultIsObjectOrNone ==
    cpc = "ollama" => (api_result.outcome = "returned" /\ api_result.kind \in {"None", "object"})

\* a timeout, a connection failure or a non-success (not 2xx) status
TransportFailure(h) == h.net # "ok" \/ h.status < 200 \/ h.status >= 300

\* C8: the completion client never raises; on a transport failure call_llama3
\* returns "" and call_ollama_api returns None; each invocation posts once.
C8_ClientNeverRaises ==
    /\ cpc = "llama3" =>
          /\ llama_result.outcome = "returned"
          /\ TransportFailure(http) => llama_result.text = <<>>
    /\ cpc = "ollama" =>
          /\ api_result.outcome = "returned"
          /\ TransportFailure(http) => api_result = Returned(PyNone)
    /\ cpc # "idle" => requests_made = 1

-----------------------------------------------------------------------------
(* Properties of the evaluation module's persistence *)

\* the latest save_evaluation_report call wrote the column and read it back populated
ReadBackPopulated(sv) ==
    sv.called /\ sv.upd \in {"rows_applied", "rows_noop"} /\ sv.ver = "rows" /\ sv.column = "saved"

\* C9: a session is reported as successfully evaluated (evaluate_interview_session
\* returned a report and batch_evaluate_sessions listed the session in
\* successful_evaluations) only if the write of the report was followed by a
\* read-back that showed Interview_report populated.
C9_SuccessOnlyAfterReadBack ==
    (mode = "batch" /\ bidx > 0 /\ last_eval.ret.truthy) =>
        /\ successful # <<>> /\ successful[Len(successful)] = last_eval.sid
        /\ ReadBackPopulated(last_eval.save)

\* C10: without any exception from the store, save_evaluation_report returns
\* False when the session row does not exist, when the update returns no row,
\* or when the read-back shows Interview_report still empty; and it returns
\* True only when the update returned a row and the read-back shows the
\* column populated.
C10_SaveReportsFailure ==
    (mode = "save" /\ last_save.called) =>
        /\ last_save.chk = "no_rows" => ~last_save.ret
        /\ last_save.upd \in {"no_rows_applied", "no_rows_noop"} => ~last_save.ret
        /\ (last_save.ver = "no_rows" \/ (last_save.ver = "rows" /\ last_save.column = "null"))
               => ~last_save.ret
        /\ last_save.ret => ReadBackPopulated(last_save)

\* the update answered with the row but wrote nothing, and the read-back ran
C10_Witness ==
    /\ mode = "save" /\ last_save.called
    /\ last_save.upd = "rows_noop" /\ last_save.ver = "rows" /\ last_save.column = "null"
    /\ ~last_save.ret

\* C11: a batch operation always completes and returns its tally without
\* raising, whatever the list of items (the empty list included) and whatever
\* fails per item; every item of the list is processed and tallied.
C11_BatchAlwaysReturnsTally ==
    mode = "batch" =>
        /\ results.outcome # "raised"
        /\ Len(successful) + Len(failed) = bidx
        /\ results.outcome = "returned" => (bidx = Len(batch) /\ results.total_processed = Len(batch))

\* C13: a configuration failure is fatal at startup: with a store credential
\* (URL or key) missing, constructing the evaluator raises, so that no
\* document is fetched, no completion call is made and nothing is written.
C13_MissingCredentialIsFatal ==
    (mode \in {"batch", "save"} /\ bidx > 0 /\ (~env.url \/ ~env.key)) =>
        /\ initialize_supabase(env).outcome = "raised"
        /\ last_eval.calls = <<>> /\ last_save.calls = <<>>
        /\ reports = [sid \in SessionIds |-> "null"]

\* the completion call of the latest evaluation was made and failed
CompletionFailed ==
    /\ mode = "batch" /\ bidx > 0
    /\ \E i \in 1..Len(last_eval.calls) : last_eval.calls[i] = "post"
    /\ ~call_ollama_api(last_http).truthy

\* C12: in batch_evaluate_sessions a session whose completion call timed out
\* or failed otherwise is listed in failed_evaluations, no exception leaves
\* the batch driver, and no write to the store is attempted for it.
C12_FailedCompletionIsTallied ==
    CompletionFailed =>
        /\ failed # <<>> /\ failed[Len(failed)] = last_eval.sid
        /\ Len(successful) + Len(failed) = bidx
        /\ results.outcome # "raised"
        /\ ~last_eval.save.called
        /\ \A i \in 1..Len(last_eval.calls) :
               last_eval.calls[i] \in {"select_session", "select_job", "post"}

\* the completion call of the second session of a batch timed out after the
\* first session was evaluated, and the batch returned
C12_Witness ==
    /\ CompletionFailed /\ last_http.net = "timeout"
    /\ bidx = 2 /\ Len(successful) = 1 /\ failed = <<last_eval.sid>>
    /\ results.outcome = "returned"

-----------------------------------------------------------------------------
(* Properties of the conversation reconstruction *)

\* an exchange with a key of the role alias set and a key of the content alias set
Resolvable(e) ==
    /\ e.t = "dict"
    /\ \E i \in 1..Len(AliasKeys.role) : AliasKeys.role[i] \in DOMAIN e.d
    /\ \E i \in 1..Len(AliasKeys.content) : AliasKeys.content[i] \in DOMAIN e.d

\* the value x is a list that holds a resolvable exchange
Yields(x) == x.t = "list" /\ \E i \in 1..Len(x.items) : Resolvable(x.items[i])

\* shape (a): the conversation_history of the session object a one-element
\* list wraps; an empty list when the input is not of that shape
HistoryOf(si) ==
    IF /\ si.t = "list" /\ Len(si.items) = 1 /\ si.items[1].t = "dict"
       /\ "session_data" \in DOMAIN si.items[1].d
       /\ si.items[1].d.session_data.t = "dict"
       /\ "conversation_history" \in DOMAIN si.items[1].d.session_data.d
    THEN si.items[1].d.session_data.d.conversation_history
    ELSE Val("list", <<>>, <<>>, "")

\* shape (b): the conversation keys a direct object has
KeysOf(si) ==
    IF si.t # "dict" THEN {}
    ELSE {k \in DOMAIN si.d : \E i \in 1..Len(AliasKeys.conversation) : AliasKeys.conversation[i] = k}

\* shape (c): the object has questions and answers, both lists
HasPairs(si) ==
    /\ si.t = "dict" /\ "questions" \in DOMAIN si.d /\ "answers" \in DOMAIN si.d
    /\ si.d.questions.t = "list" /\ si.d.answers.t = "list"

\* the list xs keeps exactly the resolvable exchanges of the list x, in their
\* order, each with a role and a content the exchange itself holds
KeepsResolvable(xs, x) ==
    LET P == {i \in 1..Len(x.items) : Resolvable(x.items[i])}
        At(j) == CHOOSE i \in P : Cardinality({y \in P : y <= i}) = j
    IN  /\ Len(xs) = Cardinality(P)
        /\ \A j \in 1..Len(xs) :
              /\ \E i \in 1..Len(AliasKeys.role) :
                    /\ AliasKeys.role[i] \in DOMAIN x.items[At(j)].d
                    /\ xs[j].role = x.items[At(j)].d[AliasKeys.role[i]]
              /\ \E i \in 1..Len(AliasKeys.content) :
                    /\ AliasKeys.content[i] \in DOMAIN x.items[At(j)].d
                    /\ xs[j].content = x.items[At(j)].d[AliasKeys.content[i]]

\* C14: the reconstruction tries (a) the wrapped conversation_history, (b) a
\* direct object's conversation keys, (c) the parallel questions and answers,
\* and stops at the first that yields: whenever a shape present in the input
\* holds a resolvable exchange, the result is non-empty and is taken from the
\* first such shape.
C14_FirstYieldingShape ==
    fn_name = "extract_conversation_data" =>
        /\ Yields(HistoryOf(fn_arg)) => KeepsResolvable(fn_ret, HistoryOf(fn_arg))
        /\ (\E k \in KeysOf(fn_arg) : Yields(fn_arg.d[k])) =>
              \E k \in KeysOf(fn_arg) : Yields(fn_arg.d[k]) /\ KeepsResolvable(fn_ret, fn_arg.d[k])
        /\ ( /\ HasPairs(fn_arg)
             /\ fn_arg.d.questions.items # <<>> /\ fn_arg.d.answers.items # <<>>
             /\ \A k \in KeysOf(fn_arg) : ~Yields(fn_arg.d[k]) ) =>
              /\ fn_ret # <<>>
              /\ \A j \in 1..Len(fn_ret) : fn_ret[j].role.v \in {"assistant", "user"}

\* the input has parallel arrays and no conversation key that yields
ParallelArrays ==
    /\ fn_name = "extract_conversation_data"
    /\ HasPairs(fn_arg)
    /\ \A k \in KeysOf(fn_arg) : ~Yields(fn_arg.d[k])

\* the smaller of the two lengths
PairCount == 
    IF Len(fn_arg.d.questions.items) <= Len(fn_arg.d.answers.items)
    THEN Len(fn_arg.d.questions.items) ELSE Len(fn_arg.d.answers.items)

\* C15 as stated: for parallel arrays of lengths m and n the result is the
\* 2*min(m,n) exchanges {assistant, questions[i]}, {user, answers[i]} in turn.
C15_PairsHoldTheItems ==
    ParallelArrays =>
        /\ Len(fn_ret) = 2 * PairCount
        /\ \A i \in 1..PairCount :
              /\ fn_ret[2 * i - 1] = [role |-> Val("str", <<>>, <<>>, "assistant"),
                                      content |-> fn_arg.d.questions.items[i]]
              /\ fn_ret[2 * i] = [role |-> Val("str", <<>>, <<>>, "user"),
                                  content |-> fn_arg.d.answers.items[i]]

\* C15: for parallel arrays of lengths m and n the result is 2*min(m,n)
\* exchanges: for each i in order {assistant, str(questions[i])} followed by
\* {user, str(answers[i])} -- the item itself when it is a string, its text
\* when it is a number.
C15_PairsHoldTheItemsAsText ==
    ParallelArrays =>
        /\ Len(fn_ret) = 2 * PairCount
        /\ \A i \in 1..PairCount :
              /\ fn_ret[2 * i - 1] = [role |-> Val("str", <<>>, <<>>, "assistant"),
                                      content |-> Val("str", <<>>, <<>>, fn_arg.d.questions.items[i].v)]
              /\ fn_ret[2 * i] = [role |-> Val("str", <<>>, <<>>, "user"),
                                  content |-> Val("str", <<>>, <<>>, fn_arg.d.answers.items[i].v)]

\* two questions, the second a number, zipped with one answer
C15_Witness ==
    /\ ParallelArrays
    /\ Len(fn_arg.d.questions.items) = 2 /\ Len(fn_arg.d.answers.items) = 1
    /\ fn_arg.d.questions.items[2].t = "int"
    /\ Len(fn_ret) = 2

\* the list of exchanges the reconstruction reads in shapes (a) and (b): the
\* wrapped conversation_history, or what the first conversation key of a
\* direct object holds
ExchangesRead ==
    IF fn_arg.t = "list" THEN HistoryOf(fn_arg)
    ELSE IF KeysOf(fn_arg) # {} /\ fn_arg.d[AliasKeys.conversation[FirstPresent(fn_arg, AliasKeys.conversation)]].t = "list"
    THEN fn_arg.d[AliasKeys.conversation[FirstPresent(fn_arg, AliasKeys.conversation)]]
    ELSE Val("list", <<>>, <<>>, "")

-----------------------------------------------------------------------------
(* Properties of the field-block parser *)

\* s without its leading whitespace
LStripped(s) ==
    IF \A i \in 1..Len(s) : s[i] \in Whitespace THEN <<>>
    ELSE SubSeq(s, MinOf({i \in 1..Len(s) : s[i] \notin Whitespace}), Len(s))

\* the lines of a reply, each trimmed
TrimmedLines(text) ==
    LET ls == Split(Strip(text), "\n") IN [i \in 1..Len(ls) |-> Strip(ls[i])]

\* the part of a line before its first colon and the part after it, trimmed
NamePart(line) == Strip(SubSeq(line, 1, MinOf({i \in 1..Len(line) : line[i] = ":"}) - 1))

ValuePart(line) == Strip(SubSeq(line, MinOf({i \in 1..Len(line) : line[i] = ":"}) + 1, Len(line)))

\* what a line records: its value, or OPEN when the value is empty or is the
\* word open in any letter case
Recorded(line) ==
    IF ValuePart(line) = <<>> \/ Lower(ValuePart(line)) = <<"o", "p", "e", "n">> THEN OPEN ELSE ValuePart(line)

\* a name without an echoed prefix: without the longest of the words
\* FIELD_NAME, Field and Key it starts with (in any letter case), the
\* whitespace after the word, one "-" or ":" after that, and the whitespace
\* after that
WithoutEchoedPrefix(name) ==
    LET words == {w \in {<<"f", "i", "e", "l", "d", "_", "n", "a", "m", "e">>, <<"f", "i", "e", "l", "d">>, <<"k", "e", "y">>} :
                     Len(w) <= Len(name) /\ Lower(SubSeq(name, 1, Len(w))) = w}
    IN  IF words = {} THEN name
        ELSE LET w == CHOOSE x \in words : \A y \in words : Len(y) <= Len(x)
                 rest == LStripped(SubSeq(name, Len(w) + 1, Len(name)))
             IN  IF rest # <<>> /\ rest[1] \in {"-", ":"} THEN LStripped(Tail(rest))
                 ELSE rest

\* the map holds one entry per line with a colon, under the key Key(line),
\* and a later line with the same key replaces an earlier one
EntryPerLine(text, map, Key(_)) ==
    LET lines == TrimmedLines(text)
        with_colon == {i \in 1..Len(lines) : \E j \in 1..Len(lines[i]) : lines[i][j] = ":"}
    IN  /\ DOMAIN map = {Key(lines[i]) : i \in with_colon}
        /\ \A i \in with_colon :
              (\A j \in with_colon : j > i => Key(lines[j]) # Key(lines[i]))
                  => map[Key(lines[i])] = Recorded(lines[i])

TrimmedName(line) == NamePart(line)

CleanedName(line) == WithoutEchoedPrefix(NamePart(line))

\* C17 (as stated): parse_llama_response builds its map line by line: a line
\* with a colon is split once at its first colon, name and value are trimmed,
\* and the entry is name -> value, or name -> OPEN when the value is empty or
\* is "open" in any letter case; a line without a colon adds nothing and a
\* value with further colons is kept whole.
C17_EntryIsNameToValue ==
    fn_name = "parse_llama_response" => EntryPerLine(fn_arg, fn_ret, TrimmedName)

\* C17 (amended): the same, with the entry stored under the trimmed name
\* without an echoed prefix FIELD_NAME, Field or Key.
C17_EntryIsCleanedNameToValue ==
    fn_name = "parse_llama_response" => EntryPerLine(fn_arg, fn_ret, CleanedName)

\* a reply whose only line echoes "Key - " before the name T and whose value
\* has a second colon
C17_Witness ==
    /\ fn_name = "parse_llama_response"
    /\ fn_arg = <<"K", "e", "y", " ", "-", " ">> \o <<"T">> \o <<":", " ", "x">> \o <<":", " ", "x">>
    /\ DOMAIN fn_ret = {<<"T">>}
    /\ fn_ret[<<"T">>] = <<"x", ":", " ", "x">>

-----------------------------------------------------------------------------
(* Properties of the JSON sanitizer *)

\* the number of places where sub occurs in s
Occurrences(s, sub) == Cardinality({i \in 0..(Len(s) - Len(sub)) : SubSeq(s, i + 1, i + Len(sub)) = sub})

Occurs(s, sub) == Occurrences(s, sub) > 0

\* the position of the first character at or after position i that is not whitespace
AfterWhitespace(s, i) ==
    IF \A j \in i..Len(s) : s[j] \in Whitespace THEN Len(s) + 1
    ELSE MinOf({j \in i..Len(s) : s[j] \notin Whitespace})

\* a comma followed, after optional whitespace, by a closing } or ]
HasTrailingComma(s) ==
    \E i \in 1..Len(s) :
        /\ s[i] = ","
        /\ AfterWhitespace(s, i + 1) <= Len(s)
        /\ s[AfterWhitespace(s, i + 1)] \in {"}", "]"}

\* an N/A in double quotes, in single quotes, or bare after a colon and
\* optional whitespace
HasNAToken(s) ==
    \/ Occurs(s, <<"\"", "N", "/", "A", "\"">>)
    \/ Occurs(s, <<"'", "N", "/", "A", "'">>)
    \/ \E i \in 1..Len(s) :
          /\ s[i] = ":"
          /\ AfterWhitespace(s, i + 1) + 2 <= Len(s)
          /\ SubSeq(s, AfterWhitespace(s, i + 1), AfterWhitespace(s, i + 1) + 2) = <<"N", "/", "A">>

C19_IdempotentOnCleanText ==
    (fn_name = "clean_json_response" /\ ~HasNAToken(fn_arg) /\ ~HasTrailingComma(fn_arg)) =>
        clean_json_response(fn_ret) = fn_ret

\* a clean text that the sanitizer still changes: its line break becomes a
\* space, and a bare N/A that follows no colon stays
C19_Witness ==
    /\ fn_name = "clean_json_response"
    /\ ~HasNAToken(fn_arg) /\ ~HasTrailingComma(fn_arg)
    /\ Occurs(fn_arg, <<"\n">>) /\ Occurs(fn_arg, <<"N", "/", "A">>)
    /\ fn_ret # fn_arg
    /\ clean_json_response(fn_ret) = fn_ret

\* C20: the output of _clean_json_response holds no comma that is followed,
\* after optional whitespace, by a closing } or ].
C20_NoTrailingCommaLeft ==
    fn_name = "clean_json_response" => ~HasTrailingComma(fn_ret)

-----------------------------------------------------------------------------
(* Properties of the salary extraction and of the value coercion *)

\* a whole number written in decimal digits, without a leading zero
IsNumeral(ds) == ds # <<>> /\ ds[1] # "0" /\ \A j \in 1..Len(ds) : ds[j] \in Digits

\* C21: for a salary text of the form $Ak - $Bk with 20 <= A <= 500 and
\* A < B, _extract_salary_range returns min = A*1000, max = B*1000 and
\* currency USD.
C21_KRangeGivesThousands ==
    fn_name = "extract_salary_range" =>
        \A p \in 1..Len(fn_arg) :
            LET a == SubSeq(fn_arg, 2, p)
                b == SubSeq(fn_arg, p + 6, Len(fn_arg) - 1)
            IN  (/\ fn_arg = <<"$">> \o a \o <<"k", " ", "-", " ", "$">> \o b \o <<"k">>
                 /\ IsNumeral(a) /\ IsNumeral(b)
                 /\ 20 <= ToInt(a) /\ ToInt(a) <= 500 /\ ToInt(a) < ToInt(b))
                    => fn_ret = [min |-> ToInt(a) * 1000, max |-> ToInt(b) * 1000, currency |-> USD]

\* an amount of money: an optional $, then digits with or without thousands
\* separators, then an optional k
AmountDigits(raw) ==
    SelectSeq(raw, LAMBDA c : c \in Digits)

IsAmount(raw) ==
    /\ AmountDigits(raw) # <<>>
    /\ \A j \in 1..Len(raw) :
          \/ raw[j] \in Digits
          \/ raw[j] = "$" /\ j = 1
          \/ raw[j] \in {"k", "K"} /\ j = Len(raw) /\ j > 1
          \/ raw[j] = "," /\ 1 < j /\ j + 3 <= Len(raw)
                /\ raw[j - 1] \in Digits
                /\ \A d \in (j + 1)..(j + 3) : raw[d] \in Digits
                /\ (j + 4 <= Len(raw) => raw[j + 4] \notin Digits)

AmountOf(raw) ==
    ToInt(AmountDigits(raw)) * (IF raw[Len(raw)] \in {"k", "K"} THEN 1000 ELSE 1)

SalaryPaths ==
    {<<"jobProfile", "compensation", "salary", "min">>, <<"jobProfile", "compensation", "salary", "max">>}

\* C22: for salary.min and salary.max, a raw amount with an optional leading
\* currency symbol and optional thousands separators is coerced to the full
\* amount, times 1000 when a trailing k is there, unless it is rejected as
\* implausible, and then the default 0 is returned.
C22_SalaryIsTheFullAmount ==
    (/\ fn_name = "parse_extracted_value"
     /\ fn_arg.field_path \in SalaryPaths
     /\ IsAmount(fn_arg.raw_value))
        => fn_ret \in {PyInt(AmountOf(fn_arg.raw_value)), PyInt(0)}

\* the segments of a raw list: split on the pipe, trimmed, without the empty
\* ones and without OPEN
Segments(raw) ==
    LET parts == Split(raw, "|")
    IN  SelectSeq([j \in 1..Len(parts) |-> Strip(parts[j])], LAMBDA x : x \notin {<<>>, OPEN})

\* the fieldSpecs entries whose typed default is a list of strings
StringListPaths ==
    {<<"jobProfile", "responsibilities", "dayToDayDuties">>,
     <<"jobProfile", "qualifications", "skills", "technical">>,
     <<"jobProfile", "qualifications", "skills", "soft">>,
     <<"jobProfile", "compensation", "benefits">>}

\* C23: for a field whose typed default is a list of strings and a raw value
\* other than OPEN, parse_extracted_value returns the list of the segments of
\* the raw value, in their order; what is written for such a field is always
\* a list.
C23_ListOfSegments ==
    (/\ fn_name = "parse_extracted_value"
     /\ fn_arg.field_path \in StringListPaths
     /\ fn_arg.raw_value # OPEN)
        => /\ fn_ret[<<>>].t = "list"
           /\ fn_ret = PyList([j \in 1..Len(Segments(fn_arg.raw_value)) |->
                                  PyStr(Segments(fn_arg.raw_value)[j])])

-----------------------------------------------------------------------------
(* Properties of the fill operations *)

\* the paths of the leaves of tree; a list is one leaf whatever it holds, and
\* so is a dict without keys
LeafPaths(tree) ==
    {p \in DOMAIN tree :
        /\ \A k \in 0..(Len(p) - 1) : tree[SubSeq(p, 1, k)].t = "dict"
        /\ tree[p].t = "dict" => \A q \in DOMAIN tree : IsPrefix(p, q) => q = p}

\* C1: the tree intelligently_fill_template returns has exactly the leaf
\* paths of the template it was given: no pass adds a path the template
\* lacks or drops one it has.
C1_LeafPathsPreserved ==
    (version = "supabase_v1.2" /\ fill_result = "returned") =>
        LeafPaths(filled) = LeafPaths(given)

\* C2: when a fill operation returns, the template the caller holds equals,
\* at every depth, what it was before the call, and the result shares
\* nothing with it.
C2_TemplateNotMutated ==
    fill_result = "returned" => (template = given /\ ~shares)

\* nothing was determined: extracted_data is {} or holds OPEN for every key,
\* or every per-field extraction returned OPEN
EmptyExtraction ==
    \/ version = "supabase_v1.2" /\ raw_values = AllOpen
    \/ /\ version \in {"ollama_v1.0", "supabase_v1.0"}
       /\ extracted_data \in {NoneExtracted, [k \in ExtractedKeys |-> Present(OPEN)]}

\* the identifier and the stamps every fill sets whatever was extracted
Stamps ==
    {<<"jobProfile", "JobId">>, <<"jobProfile", "meta", "lastUpdated">>,
     <<"jobProfile", "meta", "source">>, <<"jobProfile", "meta", "schemaVersion">>}

\* C3: filling a template when nothing was determined yields a tree whose
\* string leaves all equal OPEN (the currency may be at its default USD),
\* whose lists are all empty and whose numeric and boolean leaves are at
\* their defaults 0 and false; the identifier and the stamps are left aside.
C3_EmptyExtractionGivesDefaults ==
    (fill_result = "returned" /\ EmptyExtraction) =>
        \A p \in DOMAIN filled \ Stamps :
            /\ filled[p].t = "str" =>
                  \/ filled[p].s = OPEN
                  \/ p = <<"jobProfile", "compensation", "salary", "currency">> /\ filled[p].s = USD
            /\ filled[p].t = "list" => \A q \in DOMAIN filled : IsPrefix(p, q) => q = p
            /\ filled[p].t \in {"int", "bool"} => filled[p].n = 0


\* the copy after the identifier was set and the structural completion pass ran
StructuralCopy ==
    ensure_complete_template_structure(
        Graft(given, <<"jobProfile", "JobId">>, PyStr(TemplateId)))

\* what parse_extracted_value made of the raw value of entry i
Coerced(i) ==
    parse_extracted_value(raw_values[i], field_mappings[i].path, field_mappings[i].default)

\* the copy has nothing, or null, at the path of entry i when the overlay gets there
MissingInCopy(i) == get_nested_value(StructuralCopy, field_mappings[i].path) = PyNull

IntelligentFillReturned == version = "supabase_v1.2" /\ fill_result = "returned"

EmptyListAt(tree, path) ==
    /\ path \in DOMAIN tree
    /\ tree[path].t = "list"
    /\ \A q \in DOMAIN tree : IsPrefix(path, q) => q = path

\* the leaves of the interviewFlow stages and of their questions
StageLeaves(tree) ==
    {q \in DOMAIN tree :
        /\ IsPrefix(InterviewFlowPath, q)
        /\ \/ Len(q) = Len(InterviewFlowPath) + 2
           \/ Len(q) = Len(InterviewFlowPath) + 4 /\ q[Len(InterviewFlowPath) + 2] = "questions"
        /\ tree[q].t # "dict"
        /\ ~(Len(q) = Len(InterviewFlowPath) + 2 /\ q[Len(q)] = "questions")}

\* C25: after intelligently_fill_template every reserved customTags path is
\* [], every reserved extraNotes path is OPEN, assessmentPlan and
\* competencyProfile are [], each leaf of every interviewFlow stage and of its
\* questions is at its type default (OPEN, 0, [] or false), and the paths of
\* fieldSpecs hold what the overlay left there.
C25_ReservedFieldsAtDefaults ==
    IntelligentFillReturned =>
        /\ \A i \in 1..Len(Sections) :
              /\ EmptyListAt(filled, <<"jobProfile", Sections[i], "customTags">>)
              /\ <<"jobProfile", Sections[i], "extraNotes">> \in DOMAIN filled
              /\ filled[<<"jobProfile", Sections[i], "extraNotes">>] = Node("str", OPEN, 0)
        /\ EmptyListAt(filled, <<"jobProfile", "interviewGuidance", "assessmentPlan">>)
        /\ EmptyListAt(filled, <<"jobProfile", "interviewGuidance", "competencyProfile">>)
        /\ \A q \in StageLeaves(filled) :
              /\ filled[q].t = "str" => filled[q].s = OPEN
              /\ filled[q].t \in {"int", "bool"} => filled[q].n = 0
              /\ filled[q].t = "list" => EmptyListAt(filled, q)
        /\ \A i \in 2..Len(field_mappings) :
              Subtree(filled, field_mappings[i].path)
                  \in {Coerced(i), Subtree(StructuralCopy, field_mappings[i].path)}


\* the entries of field_mappings other than the identifier, in table order
OtherEntries ==
    SelectSeq([j \in 1..Len(field_mappings) |-> j],
              LAMBDA j : field_mappings[j].path # <<"jobProfile", "JobId">>)

IntelligentFillEnded == version = "supabase_v1.2" /\ fill_result # "none"

\* C26: in intelligently_fill_template no completion call is issued for
\* jobProfile.JobId, exactly one is issued for each other fieldSpecs entry in
\* table order, and jobProfile.JobId of the result equals the template_id
\* argument whatever the completions return.
C26_OneCallPerOtherField ==
    IntelligentFillEnded =>
        /\ field_calls = OtherEntries
        /\ IntelligentFillReturned =>
               get_nested_value(filled, <<"jobProfile", "JobId">>) = PyStr(TemplateId)

\* the same of the runs that return
C26_OneCallPerOtherFieldWhenReturned ==
    IntelligentFillReturned =>
        /\ field_calls = OtherEntries
        /\ get_nested_value(filled, <<"jobProfile", "JobId">>) = PyStr(TemplateId)

\* a completion raised and the loop asked for no further field
C26_CallsCutShort ==
    /\ IntelligentFillEnded
    /\ fill_result = "raised"
    /\ Len(field_calls) = 1

-----------------------------------------------------------------------------
(* Properties of the order of the steps of evaluate_interview_session *)

\* the external calls of a complete evaluation, in the order of the steps
StepOrder ==
    <<"select_session", "select_job", "post", "select_check", "update", "select_verify">>

\* an evaluation was run and one of its steps, the save included, failed
StepFailed ==
    /\ last_eval.sid # "none"
    /\ ~(last_eval.save.called /\ last_eval.save.ret)

\* the calls are made in the order of the steps, the completion call only for
\* a complete row, the store write only after a truthy report
StepsGated ==
    last_eval.sid # "none" =>
        /\ IsPrefix(last_eval.calls, StepOrder)
        /\ (\E i \in 1..Len(last_eval.calls) : last_eval.calls[i] = "post") =>
               client_ok /\ db[last_eval.sid] = "good"
        /\ last_eval.save.called => call_ollama_api(last_http).truthy

\* C27: evaluate_interview_session runs its steps in order, each gated on
\* the one before: the completion call only after the session row, its
\* session_information, its template_id, a job description and an exchange
\* were obtained, the store write only after a parsed report; when any step
\* fails the method returns failure, makes no later call and has written
\* nothing.
C27_StepsInOrderAndFailureWritesNothing ==
    /\ StepsGated
    /\ StepFailed =>
           /\ ~last_eval.ret.truthy
           /\ last_eval.save.upd \notin {"rows_applied", "no_rows_applied"}

\* the same with the save left out of the steps whose failure is reported
C27_StepsBeforeTheSave ==
    /\ StepsGated
    /\ (last_eval.sid # "none" /\ ~last_eval.save.called) =>
           /\ ~last_eval.ret.truthy
           /\ last_save = NoSave

-----------------------------------------------------------------------------
(* Properties of the tally of batch_evaluate_sessions *)

\* the entries of seq at the positions in S, in the order of seq
AtPositions(seq, S) ==
    [k \in 1..Cardinality(S) |->
        seq[CHOOSE i \in S : Cardinality({j \in S : j <= i}) = k]]

\* the evaluation of the last session made the completion call and got a
\* truthy report from it
LastEvaluationSucceeded ==
    /\ \E i \in 1..Len(last_eval.calls) : last_eval.calls[i] = "post"
    /\ call_ollama_api(last_http).truthy

\* C28: over a non-empty list the tally of batch_evaluate_sessions partitions
\* the input: every position processed so far has exactly one entry, in
\* successful_evaluations or in failed_evaluations, both lists keep the input
\* order, the list a session goes to depends on its own evaluation only, and
\* total_processed is the input length and the sum of the two lengths.
C28_TallyPartitionsTheInput ==
    (mode = "batch" /\ Len(batch) > 0) =>
        /\ \E S \in SUBSET (1..bidx) :
               /\ successful = AtPositions(batch, S)
               /\ failed = AtPositions(batch, (1..bidx) \ S)
               /\ bidx > 0 => (bidx \in S <=> LastEvaluationSucceeded)
        /\ bidx > 0 => last_eval.sid = batch[bidx]
        /\ results.outcome # "raised"
        /\ results.outcome = "returned" =>
               /\ bidx = Len(batch)
               /\ results.total_processed = Len(batch)
               /\ results.total_processed = Len(successful) + Len(failed)

\* a batch of two returned: the first session failed, the second was evaluated
C28_Witness ==
    /\ mode = "batch" /\ results.outcome = "returned"
    /\ Len(batch) = 2
    /\ failed = <<batch[1]>> /\ successful = <<batch[2]>>
    /\ results.total_processed = 2

-----------------------------------------------------------------------------
(* Properties of the field names of the extraction prompt *)

\* C29: the field names of the extraction prompt survive the field-block
\* parser: for every such name N and every value v that is neither empty nor
\* "open", parsing the line "N: v" gives the map with the one key N and the
\* value v, the key fill_json_template looks up; stripping an echoed prefix
\* (Field, Key, FIELD_NAME) never alters N.
C29_CanonicalNamesSurvive ==
    \A k \in DOMAIN CanonicalNames :
        /\ k \in ExtractedKeys
        /\ (/\ fn_name = "parse_llama_response"
            /\ IsPrefix(CanonicalNames[k] \o <<":", " ">>, fn_arg)
            /\ Len(fn_arg) > Len(CanonicalNames[k]) + 2)
           => /\ DOMAIN fn_ret = {CanonicalNames[k]}
              /\ fn_ret[CanonicalNames[k]] =
                     SubSeq(fn_arg, Len(CanonicalNames[k]) + 3, Len(fn_arg))

\* the same of the names that do not start with Key or Field
C29_OtherNamesSurvive ==
    \A k \in DOMAIN CanonicalNames \ {"KEY_OBJECTIVES"} :
        (/\ fn_name = "parse_llama_response"
         /\ IsPrefix(CanonicalNames[k] \o <<":", " ">>, fn_arg)
         /\ Len(fn_arg) > Len(CanonicalNames[k]) + 2)
        => /\ DOMAIN fn_ret = {CanonicalNames[k]}
           /\ fn_ret[CanonicalNames[k]] =
                  SubSeq(fn_arg, Len(CanonicalNames[k]) + 3, Len(fn_arg))

-----------------------------------------------------------------------------
(* Properties of the v1.0 job pipelines *)

\* call_llama3 returned the empty string to the pipeline
EmptyResponse == job_run.llama = "returned" /\ job_run.response = <<>>

\* the template is one fill_json_template fills from the empty map, and
\* neither the store nor the disk raised
NothingElseFailed ==
    /\ fill_json_template(given, NoneExtracted,
                          IF job_run.pipeline = "ollama" THEN GeneratedJobId ELSE TemplateId).ok
    /\ ~(job_run.outcome = "raised"
         /\ job_run.steps[Len(job_run.steps)] \in {"update", "write_file"})

\* the run returned the profile filled from the empty map and wrote it to
\* the output file
DefaultProfileReturned ==
    /\ job_run.outcome = "returned"
    /\ extracted_data = NoneExtracted
    /\ fill_result = "returned"
    /\ filled = fill_json_template(given, NoneExtracted,
                     IF job_run.pipeline = "ollama" THEN GeneratedJobId ELSE TemplateId).tree
    /\ job_run.file

\* C30: in the v1.0 job pipelines a failed completion call does not make the
\* document fail: when call_llama3 returns the empty string the template is
\* filled from the empty field map, the profile is persisted (output file,
\* and initial_json_schema in the store) and the call returns normally, so
\* that process_all_pending_jobs no longer selects the job as pending.
C30_EmptyResponseStillPersists ==
    (EmptyResponse /\ NothingElseFailed) =>
        /\ DefaultProfileReturned
        /\ job_run.pipeline = "supabase" =>
               job_run.column = "saved" /\ ~SelectedAsPending(job_run)

\* the same, the store left aside
C30_EmptyResponseStillReturns ==
    (EmptyResponse /\ NothingElseFailed) => DefaultProfileReturned

\* the completion endpoint was unreachable, the update applied, and the
\* profile filled from the empty map is in the store
C30_PersistedAfterTransportFailure ==
    /\ EmptyResponse /\ job_run.pipeline = "supabase"
    /\ DefaultProfileReturned
    /\ job_run.column = "saved"

=============================================================================
